---- MODULE Spec2Model ----
(***************************************************************************)
(* Session processing pipeline of media-zip-showcase:                      *)
(*   backend/app.py      submission and deletion endpoints                 *)
(*   backend/tasks.py    process_zip_session, generate_slideshow,          *)
(*                       cleanup_expired_sessions, _update_session_status  *)
(*   backend/utils/downloader.py   download_and_extract_zip                *)
(*   backend/utils/media_processor.py  sanitize_filename, probing          *)
(*   backend/utils/slideshow_generator.py  the chunked rendering           *)
(*   backend/models.py   SlideshowOptions                                  *)
(*                                                                         *)
(* File names are sequences of one-character strings, paths are sequences  *)
(* of such names, so that the string tests of the code (substring,         *)
(* prefix, suffix, split) are computed and not assumed.                    *)
(***************************************************************************)
EXTENDS Integers, Sequences, FiniteSets, TLC

(***************************************************************************)
(* Bounds of the model.                                                    *)
(***************************************************************************)
\* longest archive (number of entries) a submission may carry
MaxEntries == 3
\* last instant of the clock
MaxTime == 3

(***************************************************************************)
(* Program constants (config.py), scaled: sizes are counted in units of    *)
(* 512 MiB, the entry limit is 2 instead of 200.                           *)
(***************************************************************************)
MAX_FILES_PER_ZIP == 2
MAX_EXTRACTED_SIZE == 2
MAX_DOWNLOAD_SIZE == 4
\* the length cap of sanitize_filename, 255 in the source
FILENAME_CAP == 8

Sessions == {"s1"}
NoRecord == [absent |-> TRUE]
NoManifest == [none |-> TRUE]
\* slideshow_options=None
NoOptions == [no_options |-> TRUE]
None == "None"
\* a manifest without entries
EmptyManifest ==
    [images |-> <<>>, videos |-> <<>>, audio_files |-> <<>>, slideshow_video |-> None]
\* progress=None
NoProgress == -1

(***************************************************************************)
(* models.py: the members of the SessionStatus enumeration.                *)
(***************************************************************************)
SessionStatus == {"queued", "downloading", "processing", "ready", "failed"}

UrlSources == {"url", "google_drive"}
SourceType == {"upload"} \cup UrlSources

(***************************************************************************)
(* Strings.                                                                *)
(***************************************************************************)
Str_jpg == <<".", "j", "p", "g">>
Str_mp4 == <<".", "m", "p", "4">>
Str_mp3 == <<".", "m", "p", "3">>
ALLOWED_IMAGE_FORMATS == {Str_jpg}
ALLOWED_VIDEO_FORMATS == {Str_mp4}
ALLOWED_AUDIO_FORMATS == {Str_mp3}

UnsafeChars == {"<", ">", ":", "\"", "/", "\\", "|", "?", "*"}

IsPrefix(p, t) == Len(p) <= Len(t) /\ SubSeq(t, 1, Len(p)) = p

Tail_(t, n) == SubSeq(t, n, Len(t))

\* x in t, for strings
Contains(t, x) ==
    \E i \in 1..(Len(t) - Len(x) + 1) : SubSeq(t, i, i + Len(x) - 1) = x

\* t.split(c): the pieces between the occurrences of the character c
RECURSIVE SplitFrom(_, _, _, _)
SplitFrom(t, c, i, cur) ==
    IF i > Len(t) THEN <<cur>>
    ELSE IF t[i] = c THEN <<cur>> \o SplitFrom(t, c, i + 1, <<>>)
    ELSE SplitFrom(t, c, i + 1, Append(cur, t[i]))

Split(t, c) == SplitFrom(t, c, 1, <<>>)

RECURSIVE FilterSeq(_, _)
FilterSeq(q, drop) ==
    IF q = <<>> THEN <<>>
    ELSE IF Head(q) \in drop THEN FilterSeq(Tail(q), drop)
    ELSE <<Head(q)>> \o FilterSeq(Tail(q), drop)

Dot == <<".">>
DotDot == <<".", ".">>
Empty == <<>>

\* the decimal digit k as a character
Digit(k) == <<"0", "1", "2", "3", "4", "5", "6", "7", "8", "9">>[k + 1]

(***************************************************************************)
(* pathlib and os.path, on POSIX.                                          *)
(***************************************************************************)
\* Path(filename).name: the last component; empty and "." components are
\* dropped by the parser, ".." is kept
PathName(filename) ==
    LET parts == FilterSeq(Split(filename, "/"), {Empty, Dot})
    IN  IF parts = <<>> THEN <<>> ELSE parts[Len(parts)]

\* index of the dot that starts the extension of a separator-free name,
\* 0 when there is none (leading dots do not start an extension)
ExtIndex(name) ==
    LET dots == {i \in 1..Len(name) :
                    /\ name[i] = "."
                    /\ \E j \in 1..(i - 1) : name[j] # "."}
    IN  IF dots = {} THEN 0 ELSE CHOOSE i \in dots : \A j \in dots : j <= i

\* os.path.splitext(name)[1] and Path.suffix
Suffix(name) == IF ExtIndex(name) = 0 THEN <<>> ELSE Tail_(name, ExtIndex(name))
Stem(name) == IF ExtIndex(name) = 0 THEN name ELSE SubSeq(name, 1, ExtIndex(name) - 1)

\* Path.resolve() of an absolute path given by its components
RECURSIVE ResolveFrom(_, _)
ResolveFrom(parts, acc) ==
    IF parts = <<>> THEN acc
    ELSE IF Head(parts) \in {Empty, Dot} THEN ResolveFrom(Tail(parts), acc)
    ELSE IF Head(parts) = DotDot
         THEN ResolveFrom(Tail(parts),
                          IF acc = <<>> THEN acc ELSE SubSeq(acc, 1, Len(acc) - 1))
    ELSE ResolveFrom(Tail(parts), Append(acc, Head(parts)))

Resolve(parts) == ResolveFrom(parts, <<>>)

\* str(path) of an absolute path
RECURSIVE PathStr(_)
PathStr(parts) ==
    IF parts = <<>> THEN <<>> ELSE <<"/">> \o Head(parts) \o PathStr(Tail(parts))

(***************************************************************************)
(* config.py: the directories.                                             *)
(***************************************************************************)
MEDIA_DIR == << <<"m", "e", "d", "i", "a">> >>
SidChars(s) == <<"s", IF s = "s1" THEN "1" ELSE IF s = "s2" THEN "2" ELSE "3">>
SessionDir(s) == Append(MEDIA_DIR, SidChars(s))

\* a path lies in the session's directory
InsideDir(path, s) == Len(path) > Len(SessionDir(s)) /\ IsPrefix(SessionDir(s), path)

(***************************************************************************)
(* media_processor.py                                                      *)
(***************************************************************************)
\* MediaProcessor.sanitize_filename
sanitize_filename(filename) ==
    LET replaced == [i \in 1..Len(filename) |->
                        IF filename[i] \in UnsafeChars THEN "_" ELSE filename[i]]
    IN  IF Len(replaced) > FILENAME_CAP
        THEN LET ext == Suffix(replaced)
                 name == Stem(replaced)
                 keep == FILENAME_CAP - Len(ext)
             IN  (IF keep >= 0 THEN SubSeq(name, 1, keep)
                  ELSE SubSeq(name, 1, Len(name) + keep)) \o ext
        ELSE replaced

\* extension of a file name, as the classification reads it
Extension(path) == Suffix(path[Len(path)])

is_image_file(path) == Extension(path) \in ALLOWED_IMAGE_FORMATS
is_video_file(path) == Extension(path) \in ALLOWED_VIDEO_FORMATS
is_audio_file(path) == Extension(path) \in ALLOWED_AUDIO_FORMATS

\* order of the characters, for sorting by filename
Alphabet == <<".", "/", "1", "2", "3", "4", "_", "a", "b", "c", "d", "e", "f", "g",
              "h", "i", "j", "l", "m", "n", "o", "p", "s", "t", "w", "x", "z">>
Ord(c) == CHOOSE i \in 1..Len(Alphabet) : Alphabet[i] = c

RECURSIVE StrLess(_, _)
StrLess(a, b) ==
    IF b = <<>> THEN FALSE
    ELSE IF a = <<>> THEN TRUE
    ELSE IF Head(a) = Head(b) THEN StrLess(Tail(a), Tail(b))
    ELSE Ord(Head(a)) < Ord(Head(b))

FileName(path) == path[Len(path)]

Range(q) == {q[j] : j \in DOMAIN q}
Injective(q) == \A j \in DOMAIN q, k \in DOMAIN q : q[j] = q[k] => j = k
\* the orders in which the elements of a set can be listed
Perms(S) == {q \in [1..Cardinality(S) -> S] : Injective(q)}
\* q without its element at position i
RemoveAt(q, i) == SubSeq(q, 1, i - 1) \o SubSeq(q, i + 1, Len(q))

\* list.sort(key=lambda x: x.filename): the sort is stable, so files of the
\* same filename stay in the order of the list
RECURSIVE SortByFilename(_)
SortByFilename(q) ==
    IF q = <<>> THEN <<>>
    ELSE LET i == CHOOSE i \in DOMAIN q :
                     /\ \A j \in DOMAIN q : ~StrLess(FileName(q[j]), FileName(q[i]))
                     /\ \A j \in 1..(i - 1) : StrLess(FileName(q[i]), FileName(q[j]))
         IN  <<q[i]>> \o SortByFilename(RemoveAt(q, i))

\* the elements of a set of files with distinct filenames, sorted
Sorted(S) == SortByFilename(CHOOSE q \in Perms(S) : TRUE)

\* the directory that holds a file
Parent(path) == SubSeq(path, 1, Len(path) - 1)

\* media_processor.py lines 177-178: session_dir.rglob('*') yields the files
\* of a directory before those of the directories below it, in an order
\* that is otherwise the filesystem's; names starting with ._ are skipped
RglobOrders(s, onDisk) ==
    LET found == {p \in onDisk :
                    /\ InsideDir(p, s)
                    /\ ~IsPrefix(<<".", "_">>, FileName(p))}
    IN  {q \in Perms(found) :
            \A j \in DOMAIN q, k \in DOMAIN q :
               (Parent(q[j]) # Parent(q[k]) /\ IsPrefix(Parent(q[j]), Parent(q[k])))
                  => j < k}

\* the members of a list that pass a test, in the order of the list
Keep(q, S) == FilterSeq(q, Range(q) \ S)

\* files by content: c.jpg has the extension of an image and is not one,
\* u.jpg is a file on which stat or the MIME detection raises
N_c == <<"c", ".", "j", "p", "g">>
N_u == <<"u", ".", "j", "p", "g">>
CorruptNames == {N_c}
ProbeErrorNames == {N_u}

\* a probe that classifies by extension whatever happens before
get_file_info_NoError(path) ==
    IF is_image_file(path) THEN "image"
    ELSE IF is_video_file(path) THEN "video"
    ELSE IF is_audio_file(path) THEN "audio"
    ELSE "unknown"

\* MediaProcessor.get_file_info, lines 21-62: the file_type of the result.
\* An exception of stat or of the MIME detection gives "error" (55-62); the
\* probes of dimensions and duration catch their own exceptions and give
\* None (79-85, 87-107, 109-121), so the type is then the extension's
get_file_info(path) ==
    IF FileName(path) \in ProbeErrorNames THEN "error"
    ELSE IF is_image_file(path) THEN "image"
    ELSE IF is_video_file(path) THEN "video"
    ELSE IF is_audio_file(path) THEN "audio"
    ELSE "unknown"

\* MediaProcessor.process_session_directory, lines 168-259, for the order in
\* which rglob yields the files
process_session_directory(s, order) ==
    LET found == Range(order)
    IN  [images          |-> SortByFilename(Keep(order, {p \in found :
                                get_file_info(p) = "image"})),
         videos          |-> SortByFilename(Keep(order, {p \in found :
                                get_file_info(p) = "video"})),
         audio_files     |-> SortByFilename(Keep(order, {p \in found :
                                get_file_info(p) = "audio"})),
         slideshow_video |-> None]

(***************************************************************************)
(* Archives: an entry is a ZipInfo, [filename, file_size].                 *)
(***************************************************************************)
Entry(name, size) == [filename |-> name, file_size |-> size]

\* ZipInfo.is_dir
is_dir(info) ==
    Len(info.filename) > 0 /\ info.filename[Len(info.filename)] = "/"

N_a == <<"a", ".", "j", "p", "g">>
N_b == <<"b", ".", "j", "p", "g">>
N_m == <<"m", ".", "m", "p", "3">>
N_t == <<"n", ".", "t", "x", "t">>
N_up == <<".", ".", "/">> \o N_a
N_abs == <<"/">> \o N_a
N_dots == <<"a", ".", ".">> \o N_b
N_dir == <<"d", "/">>
N_sub == N_dir \o N_a
N_sub2 == <<"e", "/">> \o N_a

EntryPool ==
    { Entry(N_a, 1), Entry(N_b, 3), Entry(N_m, 1), Entry(N_t, 0),
      Entry(N_up, 1), Entry(N_abs, 1), Entry(N_dots, 1), Entry(N_dir, 0),
      Entry(N_sub, 0), Entry(N_sub2, 0) }

RECURSIVE SeqsUpTo(_, _)
SeqsUpTo(S, n) ==
    IF n = 0 THEN {<<>>}
    ELSE LET shorter == SeqsUpTo(S, n - 1)
         IN  shorter \cup {Append(q, e) : q \in {r \in shorter : Len(r) = n - 1}, e \in S}

\* every archive of at most MaxEntries entries
AllArchives == SeqsUpTo(EntryPool, MaxEntries)

\* the archives submitted in the pipeline specification
PipelineArchives ==
    { <<>>,
      <<Entry(N_m, 1), Entry(N_t, 0)>>,
      <<Entry(N_a, 1)>>,
      <<Entry(N_a, 1), Entry(N_m, 1)>>,
      <<Entry(N_up, 1)>>,
      <<Entry(N_a, 1), Entry(N_b, 3)>> }

(***************************************************************************)
(* tasks.py process_zip_session, lines 64-78: the pre-scan of an upload.   *)
(* The result is "ok" or the exception message.                            *)
(***************************************************************************)
E_PathScan == "Path traversal attempt detected in ZIP."
E_PathExtract == "Path traversal attempt detected during extraction."
E_MaxFiles == "Exceeded max file limit."
E_MaxSize == "Exceeded max extracted size."
E_NoZip == "Uploaded zip file not found."
E_TooMany == "Too many files in ZIP"
E_TooLarge == "ZIP contents too large"
E_Download == "Download failed"
E_IsDir == "Is a directory"
E_NoDir == "No such file or directory"
E_NoMember == "SessionStatus has no attribute GENERATING_SLIDESHOW"

\* a limit test that lets one file too many through
OverFileLimit_OffByOne(file_count) == file_count > MAX_FILES_PER_ZIP + 1

\* tasks.py line 74, downloader.py line 179: file_count > MAX_FILES_PER_ZIP
OverFileLimit(file_count) == file_count > MAX_FILES_PER_ZIP

UploadPathCheckFails(info) ==
    Contains(info.filename, DotDot) \/ IsPrefix(<<"/">>, info.filename)

RECURSIVE UploadScanFrom(_, _, _, _)
UploadScanFrom(infolist, i, total_size, file_count) ==
    IF i > Len(infolist) THEN "ok"
    ELSE LET info == infolist[i] IN
         IF is_dir(info) THEN UploadScanFrom(infolist, i + 1, total_size, file_count)
         ELSE IF UploadPathCheckFails(info) THEN E_PathScan
         ELSE IF OverFileLimit(file_count + 1) THEN E_MaxFiles
         ELSE IF total_size + info.file_size > MAX_EXTRACTED_SIZE THEN E_MaxSize
         ELSE UploadScanFrom(infolist, i + 1, total_size + info.file_size,
                             file_count + 1)

UploadScan(infolist) == UploadScanFrom(infolist, 1, 0, 0)

(***************************************************************************)
(* downloader.py download_and_extract_zip, lines 170-183: the check of a   *)
(* fetched archive.                                                        *)
(***************************************************************************)
RECURSIVE UrlScanFrom(_, _, _, _)
UrlScanFrom(infolist, i, total_size, file_count) ==
    IF i > Len(infolist) THEN "ok"
    ELSE LET info == infolist[i] IN
         IF OverFileLimit(file_count + 1) THEN E_TooMany
         ELSE IF total_size + info.file_size > MAX_DOWNLOAD_SIZE THEN E_TooLarge
         ELSE UrlScanFrom(infolist, i + 1, total_size + info.file_size,
                          file_count + 1)

UrlScan(infolist) == UrlScanFrom(infolist, 1, 0, 0)

(***************************************************************************)
(* Targets of the extraction.                                              *)
(***************************************************************************)
\* tasks.py lines 83-84: session_dir / sanitize_filename(Path(name).name)
UploadTarget(s, info) ==
    Append(SessionDir(s), sanitize_filename(PathName(info.filename)))

\* tasks.py line 85: the resolved target starts with the resolved directory
UploadTargetContained(s, info) ==
    IsPrefix(PathStr(Resolve(SessionDir(s))), PathStr(Resolve(UploadTarget(s, info))))

\* an extractall that keeps the ".." components of the member name
ExtractallTarget_KeepParent(s, info) ==
    Resolve(SessionDir(s) \o FilterSeq(Split(info.filename, "/"), {Empty, Dot}))

\* ZipFile.extractall (downloader.py line 186): the member name loses its
\* empty, "." and ".." components and is joined to the directory
ExtractallTarget(s, info) ==
    Resolve(SessionDir(s)
            \o FilterSeq(Split(info.filename, "/"), {Empty, Dot, DotDot}))

(***************************************************************************)
(* State.                                                                  *)
(***************************************************************************)
VARIABLES
    now,          \* datetime.utcnow()
    ttl,          \* settings.MEDIA_SESSION_TTL, settings.METADATA_SESSION_TTL
    records,      \* SESSIONS_DIR/<id>.json, NoRecord when the file is absent
    dirs,         \* the session directories that exist under MEDIA_DIR
    files,        \* the regular files on disk, as resolved absolute paths
    manifestFile, \* the content of <session dir>/manifest.json
    archive,      \* the submitted archive of a session: source and entries
    pc,           \* position of the session's process_zip_session job
    cursor,       \* next entry of the archive to extract
    manifest,     \* the manifest object held by the running job
    slideQ,       \* pending generate_slideshow tasks per session
    log,          \* the status writes made to the record, in order
    render,       \* outcome of the last rendering attempt per session
    starts,       \* renderings started by clients of the queue, per session
    eng,          \* the running call of SlideshowGenerator.generate_slideshow
    call,         \* a function applied on its own: argument and results
    jobs,         \* the generate_slideshow jobs that run side by side
    tempAudio,    \* whose sound the file temp-audio.m4a holds, "none" if absent
    runs          \* repeated deliveries of process_zip_session per session

vars == <<now, ttl, records, dirs, files, manifestFile, archive, pc, cursor,
          manifest, slideQ, log, render, starts, eng, call, jobs, tempAudio,
          runs>>

\* number of renderings the clients of the queue start for one session
MaxStarts == 1

TTLChoices == {1, 2}

InputZip(s) == Append(SessionDir(s), <<"i", "n", "p", "u", "t", ".", "z", "i", "p">>)
ManifestPath(s) ==
    Append(SessionDir(s), <<"m", "a", "n", "i", "f", "e", "s", "t", ".", "j", "s", "o", "n">>)
SlideshowPath(s) ==
    Append(SessionDir(s), <<"s", "l", "i", "d", "e", "s", "h", "o", "w", ".", "m", "p", "4">>)

\* shutil.rmtree(session_dir)
FilesAfterRmtree(s) == {p \in files : ~InsideDir(p, s)}

(***************************************************************************)
(* models.py SessionMetadata, lines 30-45, as app.py builds it (lines      *)
(* 92-103 and 150-160).  The three dates are datetime objects in the model *)
(* object; date_text says how they stand in the value at hand: "datetime"  *)
(* in the object, "isoformat" (2024-01-01T10:00:00) or "str"               *)
(* (2024-01-01 10:00:00) once they are text.                               *)
(***************************************************************************)
NewRecord(s, source_type, source_url, options) ==
    [session_id          |-> s,
     source_type         |-> source_type,
     source_url          |-> source_url,
     submitted_at        |-> now,
     date_text           |-> "datetime",
     slideshow_options   |-> options,
     expires_at          |-> now + ttl.media,
     metadata_expires_at |-> now + ttl.meta,
     status              |-> "queued",
     error_message       |-> None,
     progress            |-> NoProgress,
     manifest            |-> NoManifest]

\* meta.json() with the json_encoders of models.py lines 42-45
pydantic_json(meta) ==
    [meta EXCEPT !.date_text = IF @ = "datetime" THEN "isoformat" ELSE @]

\* a dump that writes every date again in the form of str()
json_dump_Rewritten(meta) ==
    [meta EXCEPT !.date_text = "str"]

\* json.dump(meta, f, default=str): str() is applied to the values json
\* cannot write by itself, a text is written as it is
json_dump(meta) ==
    [meta EXCEPT !.date_text = IF @ = "datetime" THEN "str" ELSE @]

\* the record of a submission made at instant 0 with both periods at 2
NewRecordAt0(s, source_type) ==
    LET meta == [session_id          |-> s,
                 source_type         |-> source_type,
                 source_url          |-> <<>>,
                 submitted_at        |-> 0,
                 date_text           |-> "datetime",
                 slideshow_options   |-> NoOptions,
                 expires_at          |-> 2,
                 metadata_expires_at |-> 2,
                 status              |-> "queued",
                 error_message       |-> None,
                 progress            |-> NoProgress,
                 manifest            |-> NoManifest]
    IN  IF source_type = "upload" THEN pydantic_json(meta) ELSE json_dump(meta)

\* _update_session_status that forgets the error text
update_session_status_NoError(meta, status, mf, error_message, progress) ==
    IF meta = NoRecord THEN meta
    ELSE [meta EXCEPT
            !.status = status,
            !.manifest = IF mf # NoManifest THEN mf ELSE @,
            !.progress = IF progress # NoProgress THEN progress ELSE @]

(***************************************************************************)
(* tasks.py _update_session_status, lines 260-273.                         *)
(* An absent argument is None; the manifest dictionary and the error text  *)
(* are stored only when they are truthy.                                   *)
(***************************************************************************)
_update_session_status(meta, status, mf, error_message, progress) ==
    IF meta = NoRecord THEN meta
    ELSE json_dump([meta EXCEPT
            !.status = status,
            !.manifest = IF mf # NoManifest THEN mf ELSE @,
            !.error_message = IF error_message \notin {None, ""}
                              THEN error_message ELSE @,
            !.progress = IF progress # NoProgress THEN progress ELSE @])

\* the entry the write leaves in the log of status writes
Written(s, by, status, progress) ==
    IF records[s] = NoRecord THEN log[s]
    ELSE Append(log[s], [status |-> status, progress |-> progress, by |-> by])

(***************************************************************************)
(* models.py SlideshowOptions, lines 24-28, as the form field of a         *)
(* submission; image_duration is in tenths of a second.                    *)
(***************************************************************************)
Options(duration, effect) == [image_duration |-> duration, transition_effect |-> effect]
TransitionEffect == {"none", "fade", "crossfade"}
\* the field left out, the shortest valid duration, a duration below it, and
\* an effect that is not in the enumeration
OptionChoices ==
    {NoOptions, Options(5, "crossfade"), Options(4, "fade"), Options(30, "wipe")}

\* a validation without the lower bound of image_duration
parse_raw_NoLowerBound(o) ==
    /\ o.image_duration <= 100
    /\ o.transition_effect \in TransitionEffect

\* SlideshowOptions.parse_raw raises no ValidationError: ge=0.5, le=10.0 and
\* the enumeration of transition_effect
parse_raw(o) ==
    /\ o.image_duration >= 5
    /\ o.image_duration <= 100
    /\ o.transition_effect \in TransitionEffect

\* app.py lines 84-90 and 131-136: `if slideshow_options:` then parse_raw
OptionsAccepted(o) == o = NoOptions \/ parse_raw(o)

(***************************************************************************)
(* The checks of a submission: app.py lines 60-61 and 124-127,             *)
(* downloader.py validate_url, lines 27-52.                                *)
(***************************************************************************)
\* str.lower(), for the capital letters that occur in the inputs
LowerChar(c) ==
    CASE c = "A" -> "a" [] c = "H" -> "h" [] c = "I" -> "i" [] c = "L" -> "l"
      [] c = "P" -> "p" [] c = "T" -> "t" [] c = "Z" -> "z" [] OTHER -> c
RECURSIVE Lower(_)
Lower(t) == IF t = <<>> THEN <<>> ELSE <<LowerChar(Head(t))>> \o Lower(Tail(t))

\* str.endswith
EndsWith(t, x) == Len(x) <= Len(t) /\ SubSeq(t, Len(t) - Len(x) + 1, Len(t)) = x

Str_zip == <<".", "z", "i", "p">>

\* a test that looks for .zip anywhere in the name
FilenameAccepted_Anywhere(fname) == fname # <<>> /\ Contains(Lower(fname), Str_zip)

\* app.py line 60; a missing filename is the empty string
FilenameAccepted(fname) == fname # <<>> /\ EndsWith(Lower(fname), Str_zip)

\* the filenames of the uploads: none, A.ZIP, a.zip.t, azip
F_none == <<>>
F_ZIP == <<"A", ".", "Z", "I", "P">>
F_zipt == <<"a", ".", "z", "i", "p", ".", "t">>
F_azip == <<"a", "z", "i", "p">>
UploadNames == {F_none, F_ZIP, F_zipt, F_azip}

\* the position of the first c in t, 0 when there is none
IndexOf(t, c) ==
    IF \E i \in DOMAIN t : t[i] = c
    THEN CHOOSE i \in DOMAIN t : t[i] = c /\ \A j \in 1..(i - 1) : t[j] # c
    ELSE 0

\* urlparse(url).scheme: what precedes the first colon, in lower case
Scheme(url) ==
    IF IndexOf(url, ":") = 0 THEN <<>>
    ELSE Lower(SubSeq(url, 1, IndexOf(url, ":") - 1))

\* urlparse(url).netloc: what follows "//" after the scheme, up to the next
\* slash
Netloc(url) ==
    LET rest == Tail_(url, IndexOf(url, ":") + 1)
    IN  IF IsPrefix(<<"/", "/">>, rest)
        THEN Head(Split(Tail_(rest, 3), "/"))
        ELSE <<>>

\* urlparse(url).hostname: the netloc without the port, in lower case;
\* None is the empty string
Hostname(url) == Lower(Head(Split(Netloc(url), ":")))

Digits == {Digit(k) : k \in 0..9}
DigitVal(c) == CHOOSE k \in 0..9 : Digit(k) = c
RECURSIVE NumVal(_)
NumVal(t) ==
    IF t = <<>> THEN 0
    ELSE 10 * NumVal(SubSeq(t, 1, Len(t) - 1)) + DigitVal(t[Len(t)])

\* ipaddress.ip_address(hostname) does not raise ValueError: four decimal
\* numbers up to 255 separated by dots
IsIPv4(h) ==
    LET parts == Split(h, ".")
    IN  /\ Len(parts) = 4
        /\ \A i \in 1..4 :
              /\ parts[i] # <<>>
              /\ Len(parts[i]) <= 3
              /\ \A j \in DOMAIN parts[i] : parts[i][j] \in Digits
              /\ NumVal(parts[i]) <= 255
Octets(h) == [i \in 1..4 |-> NumVal(Split(h, ".")[i])]

\* IPv4Address.is_loopback and is_private
is_loopback(o) == o[1] = 127
is_private(o) ==
    \/ o[1] \in {0, 10, 127}
    \/ o[1] = 169 /\ o[2] = 254
    \/ o[1] = 172 /\ o[2] \in 16..31
    \/ o[1] = 192 /\ o[2] = 168
    \/ o[1] = 192 /\ o[2] = 0 /\ o[3] \in {0, 2}
    \/ o[1] = 198 /\ o[2] \in {18, 19}
    \/ o[1] = 198 /\ o[2] = 51 /\ o[3] = 100
    \/ o[1] = 203 /\ o[2] = 0 /\ o[3] = 113
    \/ o[1] >= 240

H_localhost == <<"l", "o", "c", "a", "l", "h", "o", "s", "t">>
H_127 == <<"1", "2", "7", ".", "0", ".", "0", ".", "1">>
H_0 == <<"0", ".", "0", ".", "0", ".", "0">>

\* a validation without the test of the address ranges
validate_url_NamesOnly(url) ==
    /\ Scheme(url) \in {<<"h", "t", "t", "p">>, <<"h", "t", "t", "p", "s">>}
    /\ Hostname(url) \notin {H_localhost, H_127, H_0}

\* downloader.py lines 27-52
validate_url(url) ==
    /\ Scheme(url) \in {<<"h", "t", "t", "p">>, <<"h", "t", "t", "p", "s">>}
    /\ Hostname(url) \notin {H_localhost, H_127, H_0}
    /\ (Hostname(url) # <<>> /\ IsIPv4(Hostname(url)))
          => ~(is_private(Octets(Hostname(url))) \/ is_loopback(Octets(Hostname(url))))

\* the addresses of the link submissions:
\* https://ex.org/a.zip   ftp://ex.org/a.zip   ex.org/a.zip
\* http://LocalHost/a     http://127.0.0.2/a   http://10.0.0.1:80/a
U_ok == <<"h", "t", "t", "p", "s", ":", "/", "/", "e", "x", ".", "o", "r", "g", "/", "a", ".", "z", "i", "p">>
U_ftp == <<"f", "t", "p", ":", "/", "/", "e", "x", ".", "o", "r", "g", "/", "a", ".", "z", "i", "p">>
U_bare == <<"e", "x", ".", "o", "r", "g", "/", "a", ".", "z", "i", "p">>
U_localhost == <<"h", "t", "t", "p", ":", "/", "/", "L", "o", "c", "a", "l", "H", "o", "s", "t", "/", "a">>
U_loopback == <<"h", "t", "t", "p", ":", "/", "/", "1", "2", "7", ".", "0", ".", "0", ".", "2", "/", "a">>
U_private == <<"h", "t", "t", "p", ":", "/", "/", "1", "0", ".", "0", ".", "0", ".", "1", ":", "8", "0", "/", "a">>
UrlChoices == {U_ok, U_ftp, U_bare, U_localhost, U_loopback, U_private}

\* the source_type values of the link submissions
LinkSourceChoices == UrlSources \cup {"upload", "dropbox"}

(***************************************************************************)
(* app.py upload_zip, lines 49-111.                                        *)
(***************************************************************************)
upload_zip(s) ==
    /\ pc[s] = "idle"
    /\ \E a \in PipelineArchives, o \in OptionChoices, fname \in UploadNames :
          /\ archive' = [archive EXCEPT ![s] =
                            [via |-> "upload_zip", source |-> "upload",
                             entries |-> a, options |-> o,
                             filename |-> fname, url |-> <<>>]]
          /\ IF ~FilenameAccepted(fname)
             THEN \* lines 60-61: 400 before anything is made
                  /\ pc' = [pc EXCEPT ![s] = "rejected"]
                  /\ UNCHANGED <<dirs, files, records>>
             ELSE IF OptionsAccepted(o)
             THEN /\ dirs' = dirs \cup {s}
                  /\ files' = files \cup {InputZip(s)}
                  /\ records' = [records EXCEPT ![s] =
                                   pydantic_json(NewRecord(s, "upload", <<>>, o))]
                  /\ pc' = [pc EXCEPT ![s] = "queued"]
             ELSE \* lines 88-90: the directory made at line 67 is removed
                  /\ dirs' = dirs \ {s}
                  /\ files' = FilesAfterRmtree(s)
                  /\ pc' = [pc EXCEPT ![s] = "rejected"]
                  /\ UNCHANGED records
    /\ UNCHANGED <<now, ttl, manifestFile, cursor, manifest, slideQ, log, render, starts, eng, call,
                   jobs, tempAudio, runs>>

(***************************************************************************)
(* app.py submit_link, lines 113-168.                                      *)
(***************************************************************************)
submit_link(s) ==
    /\ pc[s] = "idle"
    /\ \E a \in PipelineArchives, src \in LinkSourceChoices, o \in OptionChoices,
          url \in UrlChoices :
          /\ archive' = [archive EXCEPT ![s] =
                            [via |-> "submit_link", source |-> src,
                             entries |-> a, options |-> o,
                             filename |-> <<>>, url |-> url]]
          /\ IF src \notin UrlSources \/ ~validate_url(url)
             THEN \* lines 124-127: 400
                  /\ pc' = [pc EXCEPT ![s] = "rejected"]
                  /\ UNCHANGED records
             ELSE IF OptionsAccepted(o)
             THEN /\ records' = [records EXCEPT ![s] =
                                   json_dump(NewRecord(s, src, url, o))]
                  /\ pc' = [pc EXCEPT ![s] = "queued"]
             ELSE \* lines 135-136
                  /\ pc' = [pc EXCEPT ![s] = "rejected"]
                  /\ UNCHANGED records
    /\ UNCHANGED <<now, ttl, dirs, files, manifestFile, cursor, manifest, slideQ,
                   log, render, starts, eng, call,
                   jobs, tempAudio, runs>>

(***************************************************************************)
(* tasks.py process_zip_session.                                           *)
(***************************************************************************)
\* a handler that cleans up and leaves the status as it is
PzsFail_StatusKept(s, rec, lg, msg) ==
    /\ records' = [records EXCEPT ![s] = rec]
    /\ log' = [log EXCEPT ![s] = lg]
    /\ pc' = [pc EXCEPT ![s] = "failed"]

\* lines 128-136: the handler of any exception of the job
PzsFail(s, rec, lg, msg) ==
    /\ records' = [records EXCEPT ![s] =
                      _update_session_status(rec, "failed", NoManifest, msg, NoProgress)]
    /\ log' = [log EXCEPT ![s] =
                  IF rec = NoRecord THEN lg
                  ELSE Append(lg, [status |-> "failed", progress |-> NoProgress, by |-> "pzs"])]
    /\ pc' = [pc EXCEPT ![s] = "failed"]

\* lines 134-135
RmtreeSessionDir(s) ==
    /\ dirs' = dirs \ {s}
    /\ files' = FilesAfterRmtree(s)
    /\ manifestFile' = [manifestFile EXCEPT ![s] = NoManifest]

\* lines 49-50
PzsStart(s) ==
    /\ pc[s] = "queued"
    /\ records' = [records EXCEPT ![s] =
                      _update_session_status(@, "downloading", NoManifest, None, NoProgress)]
    /\ log' = [log EXCEPT ![s] = Written(s, "pzs", "downloading", NoProgress)]
    /\ pc' = [pc EXCEPT ![s] = "ingest"]
    /\ UNCHANGED <<now, ttl, dirs, files, manifestFile, archive, cursor, manifest,
                   slideQ, render, starts, eng, call,
                   jobs, tempAudio, runs>>

\* lines 58-78: the upload branch up to the end of the pre-scan
PzsUploadScan(s) ==
    /\ pc[s] = "ingest"
    /\ archive[s].source = "upload"
    /\ IF InputZip(s) \notin files
       THEN /\ PzsFail(s, records[s], log[s], E_NoZip)
            /\ RmtreeSessionDir(s)
            /\ UNCHANGED cursor
       ELSE LET rec == _update_session_status(records[s], "processing", NoManifest, None, 10)
                lg == Written(s, "pzs", "processing", 10)
                verdict == UploadScan(archive[s].entries)
            IN  IF verdict # "ok"
                THEN /\ PzsFail(s, rec, lg, verdict)
                     /\ RmtreeSessionDir(s)
                     /\ UNCHANGED cursor
                ELSE /\ records' = [records EXCEPT ![s] = rec]
                     /\ log' = [log EXCEPT ![s] = lg]
                     /\ pc' = [pc EXCEPT ![s] = "extract"]
                     /\ cursor' = [cursor EXCEPT ![s] = 1]
                     /\ UNCHANGED <<dirs, files, manifestFile>>
    /\ UNCHANGED <<now, ttl, archive, manifest, slideQ, render, starts, eng, call,
                   jobs, tempAudio, runs>>

\* lines 80-88: one turn of the extraction loop of the upload branch
PzsUploadExtract(s) ==
    /\ pc[s] = "extract"
    /\ archive[s].source = "upload"
    /\ cursor[s] <= Len(archive[s].entries)
    /\ LET info == archive[s].entries[cursor[s]]
           target == Resolve(UploadTarget(s, info))
       IN  IF is_dir(info)
           THEN /\ cursor' = [cursor EXCEPT ![s] = @ + 1]
                /\ UNCHANGED <<records, log, pc, dirs, files, manifestFile>>
           ELSE IF ~UploadTargetContained(s, info)
           THEN /\ PzsFail(s, records[s], log[s], E_PathExtract)
                /\ RmtreeSessionDir(s)
                /\ UNCHANGED cursor
           ELSE IF s \notin dirs
           THEN /\ PzsFail(s, records[s], log[s], E_NoDir)
                /\ RmtreeSessionDir(s)
                /\ UNCHANGED cursor
           ELSE IF target = SessionDir(s)
           THEN /\ PzsFail(s, records[s], log[s], E_IsDir)
                /\ RmtreeSessionDir(s)
                /\ UNCHANGED cursor
           ELSE /\ files' = files \cup {target}
                /\ cursor' = [cursor EXCEPT ![s] = @ + 1]
                /\ UNCHANGED <<records, log, pc, dirs, manifestFile>>
    /\ UNCHANGED <<now, ttl, archive, manifest, slideQ, render, starts, eng, call,
                   jobs, tempAudio, runs>>

\* line 89: os.remove(zip_path) once every entry is extracted
PzsUploadFinish(s) ==
    /\ pc[s] = "extract"
    /\ archive[s].source = "upload"
    /\ cursor[s] > Len(archive[s].entries)
    /\ IF InputZip(s) \notin files
       THEN /\ PzsFail(s, records[s], log[s], E_NoDir)
            /\ RmtreeSessionDir(s)
       ELSE /\ files' = files \ {InputZip(s)}
            /\ pc' = [pc EXCEPT ![s] = "probe"]
            /\ UNCHANGED <<records, log, dirs, manifestFile>>
    /\ UNCHANGED <<now, ttl, archive, cursor, manifest, slideQ, render, starts, eng, call,
                   jobs, tempAudio, runs>>

\* lines 54-57 with downloader.py lines 154-183: the directory is made, the
\* archive fetched and checked; fetched tells whether the download succeeded
PzsDownloadScan(s) ==
    /\ pc[s] = "ingest"
    /\ archive[s].source \in UrlSources
    /\ \E fetched \in BOOLEAN :
          LET verdict == IF fetched THEN UrlScan(archive[s].entries) ELSE E_Download
          IN  IF verdict # "ok"
              THEN /\ PzsFail(s, records[s], log[s], verdict)
                   /\ RmtreeSessionDir(s)
                   /\ UNCHANGED cursor
              ELSE /\ dirs' = dirs \cup {s}
                   /\ pc' = [pc EXCEPT ![s] = "extract"]
                   /\ cursor' = [cursor EXCEPT ![s] = 1]
                   /\ UNCHANGED <<records, log, files, manifestFile>>
    /\ UNCHANGED <<now, ttl, archive, manifest, slideQ, render, starts, eng, call,
                   jobs, tempAudio, runs>>

\* downloader.py line 186: extractall, one member at a time
PzsUrlExtract(s) ==
    /\ pc[s] = "extract"
    /\ archive[s].source \in UrlSources
    /\ cursor[s] <= Len(archive[s].entries)
    /\ LET info == archive[s].entries[cursor[s]]
           target == ExtractallTarget(s, info)
       IN  IF is_dir(info)
           THEN /\ dirs' = dirs \cup {s}
                /\ cursor' = [cursor EXCEPT ![s] = @ + 1]
                /\ UNCHANGED <<records, log, pc, files, manifestFile>>
           ELSE IF target = SessionDir(s)
           THEN /\ PzsFail(s, records[s], log[s], E_IsDir)
                /\ RmtreeSessionDir(s)
                /\ UNCHANGED cursor
           ELSE /\ dirs' = dirs \cup {s}
                /\ files' = files \cup {target}
                /\ cursor' = [cursor EXCEPT ![s] = @ + 1]
                /\ UNCHANGED <<records, log, pc, manifestFile>>
    /\ UNCHANGED <<now, ttl, archive, manifest, slideQ, render, starts, eng, call,
                   jobs, tempAudio, runs>>

\* downloader.py line 188 and tasks.py line 57: extraction returns
PzsUrlFinish(s) ==
    /\ pc[s] = "extract"
    /\ archive[s].source \in UrlSources
    /\ cursor[s] > Len(archive[s].entries)
    /\ pc' = [pc EXCEPT ![s] = "probe"]
    /\ UNCHANGED <<now, ttl, records, dirs, files, manifestFile, archive, cursor,
                   manifest, slideQ, log, render, starts, eng, call,
                   jobs, tempAudio, runs>>

\* lines 95-113: probing, the manifest file, the first ready
PzsProbe(s) ==
    /\ pc[s] = "probe"
    /\ LET rec == _update_session_status(records[s], "processing", NoManifest, None, 50)
           lg == Written(s, "pzs", "processing", 50)
       IN  IF s \notin dirs
           THEN /\ PzsFail(s, rec, lg, E_NoDir)
                /\ RmtreeSessionDir(s)
                /\ UNCHANGED manifest
           ELSE \E order \in RglobOrders(s, files) :
                LET mf == process_session_directory(s, order)
                IN  /\ manifest' = [manifest EXCEPT ![s] = mf]
                    /\ manifestFile' = [manifestFile EXCEPT ![s] = mf]
                    /\ files' = files \cup {ManifestPath(s)}
                    /\ records' = [records EXCEPT ![s] =
                                      _update_session_status(rec, "ready", mf, None, 90)]
                    /\ log' = [log EXCEPT ![s] =
                                  IF rec = NoRecord THEN lg
                                  ELSE Append(lg, [status |-> "ready", progress |-> 90,
                                                   by |-> "pzs"])]
                    /\ pc' = [pc EXCEPT ![s] = "published"]
                    /\ UNCHANGED dirs
    /\ UNCHANGED <<now, ttl, archive, cursor, slideQ, render, starts, eng, call,
                   jobs, tempAudio, runs>>

\* the test of line 117 inverted
HasImages_Inverted(mf) == mf.images = <<>>

\* line 117: if manifest.images
HasImages(mf) == mf.images # <<>>

\* lines 116-124: with images the member GENERATING_SLIDESHOW of
\* SessionStatus is looked up, written and the rendering task dispatched;
\* without images the record is completed
PzsFinalize(s) ==
    /\ pc[s] = "published"
    /\ IF HasImages(manifest[s])
       THEN IF "generating_slideshow" \in SessionStatus
            THEN /\ records' = [records EXCEPT ![s] =
                        _update_session_status(@, "generating_slideshow",
                                               manifest[s], None, 90)]
                 /\ log' = [log EXCEPT ![s] =
                        Written(s, "pzs", "generating_slideshow", 90)]
                 /\ slideQ' = [slideQ EXCEPT ![s] = @ \o <<"pzs">>]
                 /\ pc' = [pc EXCEPT ![s] = "done"]
                 /\ UNCHANGED <<dirs, files, manifestFile>>
            ELSE /\ PzsFail(s, records[s], log[s], E_NoMember)
                 /\ RmtreeSessionDir(s)
                 /\ UNCHANGED slideQ
       ELSE /\ records' = [records EXCEPT ![s] =
                   _update_session_status(@, "ready", manifest[s], None, 100)]
            /\ log' = [log EXCEPT ![s] = Written(s, "pzs", "ready", 100)]
            /\ pc' = [pc EXCEPT ![s] = "done"]
            /\ UNCHANGED <<dirs, files, manifestFile, slideQ>>
    /\ UNCHANGED <<now, ttl, archive, cursor, manifest, render, starts, eng, call,
                   jobs, tempAudio, runs>>

(***************************************************************************)
(* tasks.py generate_slideshow, lines 138-215.  The task is registered     *)
(* with the queue and can be started for a session by process_zip_session  *)
(* (line 121) or by any client of the queue.                               *)
(***************************************************************************)
E_Render == "Slideshow generation failed: Manifest not found for slideshow generation"

\* a client of the queue starts the rendering of an already probed session
StartSlideshow(s) ==
    /\ records[s] # NoRecord
    /\ records[s].manifest # NoManifest
    /\ starts[s] < MaxStarts
    /\ starts' = [starts EXCEPT ![s] = @ + 1]
    /\ slideQ' = [slideQ EXCEPT ![s] = Append(@, "client")]
    /\ UNCHANGED <<now, ttl, records, dirs, files, manifestFile, archive, pc,
                   cursor, manifest, log, render, eng, call,
                   jobs, tempAudio, runs>>

\* the images of the manifest that exist on disk (the engine skips the rest)
UsableImages(s) ==
    {i \in 1..Len(manifestFile[s].images) : manifestFile[s].images[i] \in files}

generate_slideshow(s) ==
    /\ slideQ[s] # <<>>
    /\ slideQ' = [slideQ EXCEPT ![s] = Tail(@)]
    /\ IF ManifestPath(s) \notin files
       THEN \* lines 152-153 and 211-215
            /\ records' = [records EXCEPT ![s] =
                   _update_session_status(@, "ready", NoManifest, E_Render, NoProgress)]
            /\ log' = [log EXCEPT ![s] = Written(s, "gs", "ready", NoProgress)]
            /\ render' = [render EXCEPT ![s] = "raised"]
            /\ UNCHANGED <<files, manifestFile>>
       ELSE IF ~OptionsAccepted(archive[s].options)
       THEN \* line 160 and 211-215: the options of the task do not validate
            /\ records' = [records EXCEPT ![s] =
                   _update_session_status(@, "ready", NoManifest, E_Render, NoProgress)]
            /\ log' = [log EXCEPT ![s] = Written(s, "gs", "ready", NoProgress)]
            /\ render' = [render EXCEPT ![s] = "badopts"]
            /\ UNCHANGED <<files, manifestFile>>
       ELSE IF manifestFile[s].images = <<>>
       THEN \* lines 165-167
            /\ render' = [render EXCEPT ![s] = "skipped"]
            /\ UNCHANGED <<records, log, files, manifestFile>>
       ELSE \* lines 186-209: the engine returns True or False
            \E success \in BOOLEAN :
               /\ success => UsableImages(s) # {}
               /\ IF success
                  THEN LET mf == [manifestFile[s] EXCEPT
                                     !.slideshow_video = "slideshow.mp4"]
                       IN  /\ files' = files \cup {SlideshowPath(s)}
                           /\ manifestFile' = [manifestFile EXCEPT ![s] = mf]
                           /\ records' = [records EXCEPT ![s] =
                                  _update_session_status(@, "ready", mf, None, 100)]
                           /\ log' = [log EXCEPT ![s] = Written(s, "gs", "ready", 100)]
                           /\ render' = [render EXCEPT ![s] = "ok"]
                  ELSE /\ render' = [render EXCEPT ![s] = "false"]
                       /\ UNCHANGED <<records, log, files, manifestFile>>
    /\ UNCHANGED <<now, ttl, dirs, archive, pc, cursor, manifest, starts, eng, call,
                   jobs, tempAudio, runs>>

(***************************************************************************)
(* The time limits of the two tasks, tasks.py lines 36 and 138:            *)
(* soft_time_limit raises SoftTimeLimitExceeded, an Exception, in the      *)
(* running task; time_limit has the worker process killed.                 *)
(***************************************************************************)
E_SoftLimit == "SoftTimeLimitExceeded()"
E_RenderSoftLimit == "Slideshow generation failed: SoftTimeLimitExceeded()"

\* the positions at which process_zip_session is running
PzsRunning == {"ingest", "extract", "probe", "published"}

\* the soft limit passes while process_zip_session runs and the exception
\* reaches the handler of lines 128-136
PzsSoftTimeLimit(s) ==
    /\ pc[s] \in PzsRunning
    /\ PzsFail(s, records[s], log[s], E_SoftLimit)
    /\ RmtreeSessionDir(s)
    /\ UNCHANGED <<now, ttl, archive, cursor, manifest, slideQ, render, starts,
                   eng, call, jobs, tempAudio, runs>>

\* the hard limit passes while process_zip_session runs (the exception of
\* the soft limit was raised inside one of the handlers that catch Exception
\* and go on, media_processor.py lines 194, 219, 234): the process is
\* killed, no line of the task runs any more
PzsHardTimeLimit(s) ==
    /\ pc[s] \in PzsRunning
    /\ pc' = [pc EXCEPT ![s] = "killed"]
    /\ UNCHANGED <<now, ttl, records, dirs, files, manifestFile, archive, cursor,
                   manifest, slideQ, log, render, starts, eng, call, jobs,
                   tempAudio, runs>>

\* the soft limit passes while generate_slideshow runs and the exception
\* reaches the handler of lines 211-215
GsSoftTimeLimit(s) ==
    /\ slideQ[s] # <<>>
    /\ slideQ' = [slideQ EXCEPT ![s] = Tail(@)]
    /\ records' = [records EXCEPT ![s] =
           _update_session_status(@, "ready", NoManifest, E_RenderSoftLimit, NoProgress)]
    /\ log' = [log EXCEPT ![s] = Written(s, "gs", "ready", NoProgress)]
    /\ render' = [render EXCEPT ![s] = "timeout"]
    /\ UNCHANGED <<now, ttl, dirs, files, manifestFile, archive, pc, cursor,
                   manifest, starts, eng, call, jobs, tempAudio, runs>>

\* the hard limit passes while generate_slideshow runs (the engine catches
\* Exception at slideshow_generator.py lines 370 and 429 and goes on)
GsHardTimeLimit(s) ==
    /\ slideQ[s] # <<>>
    /\ slideQ' = [slideQ EXCEPT ![s] = Tail(@)]
    /\ render' = [render EXCEPT ![s] = "killed"]
    /\ UNCHANGED <<now, ttl, records, dirs, files, manifestFile, archive, pc,
                   cursor, manifest, log, starts, eng, call, jobs, tempAudio,
                   runs>>

(***************************************************************************)
(* tasks.py cleanup_expired_sessions, lines 217-258.                       *)
(***************************************************************************)
\* a media pass that reads the metadata expiry
MediaExpired_ByMetadata ==
    {s \in dirs : records[s] # NoRecord /\ now > records[s].metadata_expires_at}

\* a media pass that also removes a directory without a record
DirDue_OrphansToo(s) ==
    records[s] = NoRecord \/ now > records[s].expires_at

\* lines 228-234: a directory is due when its record exists and the record's
\* media expiry has passed
DirDue(s) ==
    records[s] # NoRecord /\ now > records[s].expires_at

\* lines 225-241: the directories the media pass removes
MediaExpired == {s \in dirs : DirDue(s)}

\* a metadata pass that removes a record at the very instant of its expiry
MetadataExpired_AtExpiry ==
    {s \in DOMAIN records :
        records[s] # NoRecord /\ now >= records[s].metadata_expires_at}

\* lines 245-256: the records the metadata pass removes
MetadataExpired ==
    {s \in DOMAIN records :
        records[s] # NoRecord /\ now > records[s].metadata_expires_at}

\* a media pass that stops at the first directory whose handling fails
MediaPassRemoves_Aborts(badDirs) ==
    IF badDirs = {} THEN MediaExpired ELSE {}

\* lines 225-241: each directory is handled inside its own try/except, so
\* the directories in badDirs (record unreadable or unparseable, or the
\* removal itself failing under ignore_errors) are logged and skipped
MediaPassRemoves(badDirs) == MediaExpired \ badDirs

\* lines 245-256: each record is handled inside its own try/except
MetadataPassRemoves(badRecs) == MetadataExpired \ badRecs

\* the whole task, given the items whose handling raises
Sweep(badDirs, badRecs) ==
    /\ dirs' = dirs \ MediaPassRemoves(badDirs)
    /\ files' = {p \in files : \A s \in MediaPassRemoves(badDirs) : ~InsideDir(p, s)}
    /\ manifestFile' = [s \in DOMAIN manifestFile |->
                           IF s \in MediaPassRemoves(badDirs)
                           THEN NoManifest ELSE manifestFile[s]]
    /\ records' = [s \in DOMAIN records |->
                      IF s \in MetadataPassRemoves(badRecs)
                      THEN NoRecord ELSE records[s]]
    /\ UNCHANGED <<now, ttl, archive, pc, cursor, manifest, slideQ, log, render, starts, eng, call,
                   jobs, tempAudio, runs>>

\* a run in which no item raises
cleanup_expired_sessions == Sweep({}, {})

\* the directories and records whose handling can raise: those that have a
\* record file to read
WithRecord == {s \in DOMAIN records : records[s] # NoRecord}

\* a run in which at least one item raises
cleanup_with_failures ==
    \E badDirs \in SUBSET (dirs \cap WithRecord), badRecs \in SUBSET WithRecord :
        /\ badDirs \cup badRecs # {}
        /\ Sweep(badDirs, badRecs)

(***************************************************************************)
(* app.py delete_session, lines 182-197.                                   *)
(***************************************************************************)
delete_session(s) ==
    /\ pc[s] # "idle"
    /\ records' = [records EXCEPT ![s] = NoRecord]
    /\ RmtreeSessionDir(s)
    /\ UNCHANGED <<now, ttl, archive, pc, cursor, manifest, slideQ, log, render, starts, eng, call,
                   jobs, tempAudio, runs>>

\* time passes
Tick ==
    /\ now < MaxTime
    /\ now' = now + 1
    /\ UNCHANGED <<ttl, records, dirs, files, manifestFile, archive, pc, cursor,
                   manifest, slideQ, log, render, starts, eng, call,
                   jobs, tempAudio, runs>>

(***************************************************************************)
(* tasks.py generate_slideshow, lines 162-178, and                         *)
(* utils/slideshow_generator.py SlideshowGenerator.generate_slideshow,     *)
(* lines 188-326, with _generate_chunk_slideshow, lines 328-431.           *)
(***************************************************************************)
\* settings.MAX_SLIDESHOW_IMAGES, 30 in the source
MAX_SLIDESHOW_IMAGES == 3
\* chunk_size, 10 in the source
chunk_size == 2
\* length of the longest manifest image list
MaxImages == 4

\* no call is running
EngOff ==
    [phase |-> "off", image_paths |-> <<>>, i |-> 0, clips |-> <<>>,
     chunk_videos |-> <<>>, chunk_clips |-> <<>>, failed_chunks |-> {},
     temp_files |-> <<>>, created |-> {}, events |-> <<>>, used |-> <<>>,
     result |-> "none",
     image_duration |-> 0, chunk_durations |-> <<>>, duration |-> 0]

\* slideshow_generator.py line 362: ImageClip(path, duration=options.image_duration);
\* the letterbox of line 364 keeps the duration
ImageClip(i, d) == [img |-> i, duration |-> d, effects |-> <<>>]

RECURSIVE SumSeq(_)
SumSeq(q) == IF q = <<>> THEN 0 ELSE Head(q) + SumSeq(Tail(q))

\* concatenate_videoclips(clips, method="compose") of lines 386 and 269: the
\* parts follow one another without overlap, so the duration is their sum
concatenate_videoclips(durations) == SumSeq(durations)

\* the directory the rendering works in
RenderSession == "s1"

N_e == <<"e", ".", "j", "p", "g">>
N_f == <<"f", ".", "j", "p", "g">>
\* image files by content: b.jpg is wider than max_dimension, c.jpg is not
\* a readable image, e.jpg is listed in the manifest and not on disk
\* temp_b.jpg is an image of the archive that has the name line 169 gives
\* to the reduced copy of b.jpg
N_tb == <<"t", "e", "m", "p", "_">> \o N_b
RenderNames == {N_a, N_b, N_c, N_e, N_f, N_tb}
LargeNames == {N_b}
MissingNames == {N_e}

\* slideshow_generator.py line 169: temp_<name> next to the image
TempPath(p) ==
    Append(SessionDir(RenderSession), <<"t", "e", "m", "p", "_">> \o FileName(p))
\* line 229: chunk_<k>.mp4 next to the output
ChunkPath(k) ==
    Append(SessionDir(RenderSession),
           <<"c", "h", "u", "n", "k", "_", Digit(k)>> \o Str_mp4)

\* a selection that may take the same image twice
Selections_WithRepeats(listed) ==
    IF Len(listed) > MAX_SLIDESHOW_IMAGES
    THEN {q \in [1..MAX_SLIDESHOW_IMAGES -> Range(listed)] : TRUE}
    ELSE {listed}

\* tasks.py lines 169-174: random.shuffle, then the first max_images
Selections(listed) ==
    IF Len(listed) > MAX_SLIDESHOW_IMAGES
    THEN {q \in [1..MAX_SLIDESHOW_IMAGES -> Range(listed)] : Injective(q)}
    ELSE {listed}

\* tasks.py lines 162-178 and the entry of the engine, lines 207-217
EngSelect ==
    /\ eng.phase = "select"
    /\ LET listed == manifestFile[RenderSession].images
       IN  IF listed = <<>>
           THEN eng' = [eng EXCEPT !.phase = "returned", !.result = "skipped"]
           ELSE \E sel \in Selections(listed) :
                   eng' = [eng EXCEPT !.phase = "chunk", !.image_paths = sel, !.i = 1]
    /\ UNCHANGED <<now, ttl, records, dirs, files, manifestFile, archive, pc,
                   cursor, manifest, slideQ, log, render, starts, call,
                   jobs, tempAudio, runs>>

\* a numbering of the chunks that counts the indices from zero
ChunkOf_FromZero(j) == (j \div chunk_size) + 1

\* line 219-221: number and last index of the chunk that holds index j
ChunkOf(j) == ((j - 1) \div chunk_size) + 1
ChunkEnd(j) ==
    IF ChunkOf(j) * chunk_size < Len(eng.image_paths)
    THEN ChunkOf(j) * chunk_size ELSE Len(eng.image_paths)

Event(j, what) == [i |-> j, ev |-> what]

\* _generate_chunk_slideshow lines 342-372: one pass of the loop over the
\* images of the chunk; memOk is the outcome of check_memory_limit
EngImage ==
    /\ eng.phase = "chunk"
    /\ LET j == eng.i
           p == eng.image_paths[j]
           after == IF j + 1 > ChunkEnd(j) THEN "write" ELSE "chunk"
           large == FileName(p) \in LargeNames
       IN  IF p \notin files
           THEN \* lines 343-345
                /\ eng' = [eng EXCEPT !.i = j + 1, !.phase = after,
                                      !.events = Append(@, Event(j, "missing"))]
                /\ UNCHANGED files
           ELSE \E memOk \in BOOLEAN :
                   IF ~memOk
                   THEN \* lines 352-354: MemoryError, caught at 370-372
                        /\ eng' = [eng EXCEPT !.i = j + 1, !.phase = after,
                                              !.events = Append(@, Event(j, "memory"))]
                        /\ UNCHANGED files
                   ELSE IF FileName(p) \in CorruptNames
                   THEN \* optimize_large_image returns the path, ImageClip raises
                        /\ eng' = [eng EXCEPT !.i = j + 1, !.phase = after,
                                              !.events = Append(@, Event(j, "error"))]
                        /\ UNCHANGED files
                   ELSE /\ eng' = [eng EXCEPT
                               !.i = j + 1, !.phase = after,
                               !.clips = Append(@, p),
                               !.temp_files = IF large THEN Append(@, TempPath(p)) ELSE @,
                               !.created = IF large THEN @ \cup {TempPath(p)} ELSE @,
                               !.events = Append(@, Event(j, "clip"))]
                        /\ files' = IF large THEN files \cup {TempPath(p)} ELSE files
    /\ UNCHANGED <<now, ttl, records, dirs, manifestFile, archive, pc,
                   cursor, manifest, slideQ, log, render, starts, call,
                   jobs, tempAudio, runs>>

\* _generate_chunk_slideshow lines 374-431 and generate_slideshow lines
\* 238-246: the chunk is written or fails, and the loop goes on either way
EngChunkWrite ==
    /\ eng.phase = "write"
    /\ LET k == ChunkOf(eng.i - 1)
           after == IF eng.i > Len(eng.image_paths) THEN "concat" ELSE "chunk"
       IN  \E wrote \in BOOLEAN :
              IF eng.clips # <<>> /\ wrote
              THEN /\ eng' = [eng EXCEPT
                          !.phase = after, !.clips = <<>>,
                          !.chunk_videos = Append(@, k),
                          !.chunk_clips = Append(@, eng.clips),
                          !.chunk_durations = Append(@, concatenate_videoclips(
                              [j \in DOMAIN eng.clips |->
                                  ImageClip(j, eng.image_duration).duration])),
                          !.created = @ \cup {ChunkPath(k)}]
                   /\ files' = files \cup {ChunkPath(k)}
              ELSE /\ eng' = [eng EXCEPT
                          !.phase = after, !.clips = <<>>,
                          !.failed_chunks = @ \cup {k}]
                   /\ UNCHANGED files
    /\ UNCHANGED <<now, ttl, records, dirs, manifestFile, archive, pc,
                   cursor, manifest, slideQ, log, render, starts, call,
                   jobs, tempAudio, runs>>

RECURSIVE Flatten(_)
Flatten(qq) == IF qq = <<>> THEN <<>> ELSE Head(qq) \o Flatten(Tail(qq))

\* generate_slideshow lines 248-326: concatenation, final write, cleanup
EngConcat ==
    /\ eng.phase = "concat"
    /\ \E wrote \in BOOLEAN :
          IF eng.chunk_videos # <<>> /\ wrote
          THEN \* lines 276-315
               /\ files' = (files \cup {SlideshowPath(RenderSession)})
                              \ ({ChunkPath(k) : k \in Range(eng.chunk_videos)}
                                   \cup Range(eng.temp_files))
               /\ eng' = [eng EXCEPT !.phase = "returned", !.result = "success",
                                     !.used = Flatten(eng.chunk_clips),
                                     !.duration =
                                        concatenate_videoclips(eng.chunk_durations)]
          ELSE \* lines 317-326: only temp_files are removed
               /\ files' = files \ Range(eng.temp_files)
               /\ eng' = [eng EXCEPT !.phase = "returned", !.result = "failure"]
    /\ UNCHANGED <<now, ttl, records, dirs, manifestFile, archive, pc,
                   cursor, manifest, slideQ, log, render, starts, call,
                   jobs, tempAudio, runs>>

(***************************************************************************)
(* A repeated delivery of process_zip_session: the queue runs a task at    *)
(* least once, so the task of a session may be run again after it ended.   *)
(* The state of the session at that moment is kept for comparison.         *)
(***************************************************************************)
MaxRedeliveries == 1

\* the files of the session's directory
MediaOf(s) == {p \in files : InsideDir(p, s)}

\* no repeated delivery yet
NoRuns == [n |-> 0, status |-> "none", manifest |-> NoManifest, media |-> {}]

\* tasks.py lines 36-45: the task starts again with the same arguments
Redeliver(s) ==
    /\ pc[s] \in {"done", "failed"}
    /\ records[s] # NoRecord
    /\ runs[s].n < MaxRedeliveries
    /\ runs' = [runs EXCEPT ![s] =
                   [n |-> @.n + 1, status |-> records[s].status,
                    manifest |-> records[s].manifest, media |-> MediaOf(s)]]
    /\ pc' = [pc EXCEPT ![s] = "queued"]
    /\ cursor' = [cursor EXCEPT ![s] = 0]
    /\ manifest' = [manifest EXCEPT ![s] = EmptyManifest]
    /\ UNCHANGED <<now, ttl, records, dirs, files, manifestFile, archive, slideQ,
                   log, render, starts, eng, call, jobs, tempAudio>>

(***************************************************************************)
(* tasks.py _update_session_status, lines 260-273, taken apart: the test   *)
(* of existence (261-262), the read (263-264) and the write (265-273) are  *)
(* separate file operations, and the record is not locked in between.      *)
(* The call is the first of process_zip_session, lines 49-50.              *)
(***************************************************************************)
UssExists(s) ==
    /\ pc[s] = "queued"
    /\ call.step = 0
    /\ IF records[s] = NoRecord
       THEN \* line 262: return, and the job goes on
            /\ pc' = [pc EXCEPT ![s] = "ingest"]
            /\ UNCHANGED call
       ELSE /\ call' = [call EXCEPT !.step = 1]
            /\ UNCHANGED pc
    /\ UNCHANGED <<now, ttl, records, dirs, files, manifestFile, archive, cursor,
                   manifest, slideQ, log, render, starts, eng, jobs, tempAudio,
                   runs>>

UssRead(s) ==
    /\ pc[s] = "queued"
    /\ call.step = 1
    /\ IF records[s] = NoRecord
       THEN \* open(meta_path, 'r') raises FileNotFoundError: lines 128-136
            /\ PzsFail(s, records[s], log[s], E_NoDir)
            /\ RmtreeSessionDir(s)
            /\ call' = [call EXCEPT !.step = 0]
       ELSE /\ call' = [call EXCEPT !.step = 2, !.out = records[s]]
            /\ UNCHANGED <<records, log, pc, dirs, files, manifestFile>>
    /\ UNCHANGED <<now, ttl, archive, cursor, manifest, slideQ, render, starts,
                   eng, jobs, tempAudio, runs>>

\* open(meta_path, 'w') makes the file when it is not there
UssWrite(s) ==
    /\ pc[s] = "queued"
    /\ call.step = 2
    /\ records' = [records EXCEPT ![s] =
           _update_session_status(call.out, "downloading", NoManifest, None, NoProgress)]
    /\ log' = [log EXCEPT ![s] =
           Append(@, [status |-> "downloading", progress |-> NoProgress, by |-> "pzs"])]
    /\ pc' = [pc EXCEPT ![s] = "ingest"]
    /\ call' = [call EXCEPT !.step = 0, !.out = <<>>]
    /\ UNCHANGED <<now, ttl, dirs, files, manifestFile, archive, cursor, manifest,
                   slideQ, render, starts, eng, jobs, tempAudio, runs>>

(***************************************************************************)
(* Renderings of several sessions side by side.                            *)
(* slideshow_generator.py passes temp_audiofile='temp-audio.m4a' to both   *)
(* write_videofile calls (lines 409-419 and 276-284) when the clip has     *)
(* sound.  write_videofile first writes the sound to that file, then has   *)
(* ffmpeg read it while it encodes the video, then removes it              *)
(* (remove_temp=True).  The name is relative, so it is one file of the     *)
(* worker's working directory whatever the session.                        *)
(***************************************************************************)
JobSessions == {"s1", "s2"}

\* the working directory of the worker processes
WorkerCwd == << <<"a", "p", "p">> >>
TempAudioFile ==
    Append(WorkerCwd, <<"t", "e", "m", "p", "-", "a", "u", "d", "i", "o",
                        ".", "m", "4", "a">>)

\* slideshow_generator.py line 229 for the directory of session s
ChunkPathIn(s, k) == Append(SessionDir(s), FileName(ChunkPath(k)))

\* no rendering job is running for the session; touched is the set of
\* files the job has read, written or removed, sound the session whose
\* sound went into the last file the job encoded
JobOff == [phase |-> "off", touched |-> {}, sound |-> "none", result |-> "none"]

\* tasks.py lines 179-183 and slideshow_generator.py line 392
HasMusic(s) ==
    /\ manifestFile[s].audio_files # <<>>
    /\ manifestFile[s].audio_files[1] \in files

\* the clip about to be written has sound: the chunk when there is music,
\* the concatenation when the chunk it was loaded from has sound
ClipHasAudio(s) ==
    IF jobs[s].phase \in {"chunk", "chunk_mux"}
    THEN HasMusic(s) ELSE jobs[s].sound # "none"

\* tasks.py lines 146-183: the manifest is read, the images are taken
JobBegin(s) ==
    /\ jobs[s].phase = "queued"
    /\ IF ManifestPath(s) \notin files
       THEN \* lines 152-153 and 211-215
            /\ jobs' = [jobs EXCEPT ![s].phase = "returned", ![s].result = "raised"]
            /\ records' = [records EXCEPT ![s] =
                   _update_session_status(@, "ready", NoManifest, E_Render, NoProgress)]
            /\ log' = [log EXCEPT ![s] = Written(s, "gs", "ready", NoProgress)]
       ELSE IF manifestFile[s].images = <<>>
       THEN \* lines 165-167
            /\ jobs' = [jobs EXCEPT ![s].phase = "returned", ![s].result = "skipped",
                                    ![s].touched = @ \cup {ManifestPath(s)}]
            /\ UNCHANGED <<records, log>>
       ELSE /\ jobs' = [jobs EXCEPT ![s].phase = "chunk",
                                    ![s].touched = @ \cup {ManifestPath(s)}]
            /\ UNCHANGED <<records, log>>
    /\ UNCHANGED <<now, ttl, dirs, files, manifestFile, archive, pc, cursor,
                   manifest, slideQ, render, starts, eng, call, tempAudio, runs>>

\* write_videofile, first half: the sound of the clip goes to temp_audiofile
JobWriteSound(s) ==
    /\ jobs[s].phase \in {"chunk", "final"}
    /\ LET next == IF jobs[s].phase = "chunk" THEN "chunk_mux" ELSE "final_mux"
       IN  IF ClipHasAudio(s)
           THEN /\ files' = files \cup {TempAudioFile}
                /\ tempAudio' = s
                /\ jobs' = [jobs EXCEPT ![s].phase = next,
                                        ![s].touched = @ \cup {TempAudioFile}]
           ELSE /\ jobs' = [jobs EXCEPT ![s].phase = next]
                /\ UNCHANGED <<files, tempAudio>>
    /\ UNCHANGED <<now, ttl, records, dirs, manifestFile, archive, pc, cursor,
                   manifest, slideQ, log, render, starts, eng, call, runs>>

\* write_videofile, second half: ffmpeg encodes the video with the sound it
\* finds in temp_audiofile, and the file is removed.  A chunk that cannot
\* be written leaves no chunk to concatenate (lines 238-249, 429-431); a
\* final video that cannot be written fails the rendering (lines 317-326).
\* On success tasks.py lines 194-206 rewrite the manifest and the record.
JobEncode(s) ==
    /\ jobs[s].phase \in {"chunk_mux", "final_mux"}
    /\ LET chunk == jobs[s].phase = "chunk_mux"
           out == IF chunk THEN ChunkPathIn(s, 1) ELSE SlideshowPath(s)
           sound == ClipHasAudio(s)
           mf == [manifestFile[s] EXCEPT !.slideshow_video = "slideshow.mp4"]
       IN  IF sound /\ tempAudio = "none"
           THEN /\ jobs' = [jobs EXCEPT ![s].phase = "returned",
                                        ![s].result = "failure",
                                        ![s].touched = @ \cup {TempAudioFile}]
                /\ UNCHANGED <<files, tempAudio, manifestFile, records, log>>
           ELSE /\ tempAudio' = IF sound THEN "none" ELSE tempAudio
                /\ jobs' = [jobs EXCEPT
                       ![s].phase = IF chunk THEN "final" ELSE "returned",
                       ![s].result = IF chunk THEN @ ELSE "success",
                       ![s].sound = IF sound THEN tempAudio ELSE "none",
                       ![s].touched = @ \cup {out}
                           \cup (IF sound THEN {TempAudioFile} ELSE {})
                           \cup (IF chunk THEN {} ELSE {ChunkPathIn(s, 1), ManifestPath(s)})]
                /\ files' = IF chunk
                            THEN (files \cup {out})
                                    \ (IF sound THEN {TempAudioFile} ELSE {})
                            ELSE (files \cup {out})
                                    \ ((IF sound THEN {TempAudioFile} ELSE {})
                                          \cup {ChunkPathIn(s, 1)})
                /\ IF chunk
                   THEN UNCHANGED <<manifestFile, records, log>>
                   ELSE /\ manifestFile' = [manifestFile EXCEPT ![s] = mf]
                        /\ records' = [records EXCEPT ![s] =
                               _update_session_status(@, "ready", mf, None, 100)]
                        /\ log' = [log EXCEPT ![s] = Written(s, "gs", "ready", 100)]
    /\ UNCHANGED <<now, ttl, dirs, archive, pc, cursor, manifest, slideQ,
                   render, starts, eng, call, runs>>
(***************************************************************************)
(* Functions applied on their own.                                         *)
(***************************************************************************)
NoCall == [fn |-> "none", arg |-> <<>>, out |-> <<>>, again |-> <<>>, step |-> 0]

\* length of the longest name given to sanitize_filename
MaxNameLen == 10
\* an ordinary character, the dot, and a character of the unsafe set
SanitizeAlphabet == {"a", ".", ":"}
SanitizeNames == UNION {[1..n -> SanitizeAlphabet] : n \in 0..MaxNameLen}

\* media_processor.py lines 261-270 applied to the argument
SanitizeOnce ==
    /\ call.fn = "sanitize_filename"
    /\ call.step = 0
    /\ call' = [call EXCEPT !.out = sanitize_filename(call.arg), !.step = 1]
    /\ UNCHANGED <<now, ttl, records, dirs, files, manifestFile, archive, pc,
                   cursor, manifest, slideQ, log, render, starts, eng,
                   jobs, tempAudio, runs>>

\* media_processor.py lines 261-270 applied to the first result
SanitizeTwice ==
    /\ call.fn = "sanitize_filename"
    /\ call.step = 1
    /\ call' = [call EXCEPT !.again = sanitize_filename(call.out), !.step = 2]
    /\ UNCHANGED <<now, ttl, records, dirs, files, manifestFile, archive, pc,
                   cursor, manifest, slideQ, log, render, starts, eng,
                   jobs, tempAudio, runs>>

\* number of files in the directory given to process_session_directory
MaxProbeFiles == 3
\* files of a session directory after extractall of a fetched archive:
\* two at the top and two in each of the directories d and e
ProbePool ==
    LET top == SessionDir(RenderSession)
        d == Append(top, <<"d">>)
        e == Append(top, <<"e">>)
    IN  {Append(top, N_a), Append(top, N_b), Append(d, N_a), Append(d, N_m),
         Append(e, N_a), Append(e, N_m)}

\* process_session_directory for the first iteration order
ManifestOfFirst ==
    /\ call.fn = "process_session_directory"
    /\ call.step = 0
    /\ call' = [call EXCEPT !.out = process_session_directory(RenderSession, call.arg[1]),
                            !.step = 1]
    /\ UNCHANGED <<now, ttl, records, dirs, files, manifestFile, archive, pc,
                   cursor, manifest, slideQ, log, render, starts, eng,
                   jobs, tempAudio, runs>>

\* process_session_directory for the second iteration order
ManifestOfSecond ==
    /\ call.fn = "process_session_directory"
    /\ call.step = 1
    /\ call' = [call EXCEPT !.again = process_session_directory(RenderSession, call.arg[2]),
                            !.step = 2]
    /\ UNCHANGED <<now, ttl, records, dirs, files, manifestFile, archive, pc,
                   cursor, manifest, slideQ, log, render, starts, eng,
                   jobs, tempAudio, runs>>

(***************************************************************************)
(* utils/slideshow_generator.py: the clips of one chunk and the            *)
(* transitions applied to them, lines 362-382 and 433-473.  A clip is the  *)
(* image it shows (by its place in the chunk), its length in tenths of a   *)
(* second and the effects put on it, in the order they were put.  fadein,  *)
(* fadeout and crossfadein of moviepy return a copy of the clip with an    *)
(* opacity ramp: start, end and duration stay as they are.                 *)
(***************************************************************************)
\* number of clips in the longest chunk the transitions are applied to
MaxClips == 5
\* image_duration: the shortest, the default and the longest valid value
DurationChoices == {5, 30, 100}

ChunkClips(k, d) == [i \in 1..k |-> ImageClip(i, d)]

fadein(clip) == [clip EXCEPT !.effects = Append(@, "fadein")]
fadeout(clip) == [clip EXCEPT !.effects = Append(@, "fadeout")]
crossfadein(clip) == [clip EXCEPT !.effects = Append(@, "crossfadein")]

\* a pass of the loop of _fade_transition that fades only the next clip in
FadePass_NoFadeOut(clips, i) ==
    [clips EXCEPT ![i + 1] = fadein(@)]

\* _fade_transition lines 449-453: one pass of the loop, on the list itself
FadePass(clips, i) ==
    [clips EXCEPT ![i] = fadeout(@), ![i + 1] = fadein(@)]

\* a crossfade that treats its first and last clip as _fade_transition does
CrossfadeClip_AsFade(clips, i) ==
    IF i = 1 THEN fadeout(clips[i])
    ELSE IF i = Len(clips) THEN fadein(clips[i])
    ELSE fadeout(crossfadein(clips[i]))

\* _crossfade_transition lines 462-471: the clip appended to new_clips in
\* the pass for index i
CrossfadeClip(clips, i) ==
    IF i = 1 THEN fadein(clips[i])
    ELSE IF i = Len(clips) THEN fadeout(clips[i])
    ELSE fadeout(crossfadein(clips[i]))

NoTransition == [pc |-> "start", clips |-> <<>>, new_clips |-> <<>>, result |-> <<>>]

\* _generate_chunk_slideshow lines 379-382 and _apply_transitions lines
\* 435-439: which function, if any, gets the clips
TransitionsBegin ==
    /\ call.fn = "_apply_transitions"
    /\ call.out.pc = "start"
    /\ LET clips == call.arg.clips
           effect == call.arg.options.transition_effect
       IN  IF effect = "none" \/ Len(clips) <= 1
           THEN call' = [call EXCEPT !.out = [@ EXCEPT !.pc = "returned", !.result = clips]]
           ELSE call' = [call EXCEPT !.out = [@ EXCEPT !.pc = effect, !.clips = clips],
                                     !.step = 1]
    /\ UNCHANGED <<now, ttl, records, dirs, files, manifestFile, archive, pc,
                   cursor, manifest, slideQ, log, render, starts, eng,
                   jobs, tempAudio, runs>>

\* _fade_transition lines 449-455: a pass of the loop, then the return
FadeStep ==
    /\ call.fn = "_apply_transitions"
    /\ call.out.pc = "fade"
    /\ LET i == call.step
           after == FadePass(call.out.clips, i)
       IN  IF i + 1 <= Len(after) - 1
           THEN call' = [call EXCEPT !.out = [@ EXCEPT !.clips = after], !.step = i + 1]
           ELSE call' = [call EXCEPT !.out = [@ EXCEPT !.clips = after, !.pc = "returned",
                                                       !.result = after],
                                     !.step = i + 1]
    /\ UNCHANGED <<now, ttl, records, dirs, files, manifestFile, archive, pc,
                   cursor, manifest, slideQ, log, render, starts, eng,
                   jobs, tempAudio, runs>>

\* _crossfade_transition lines 461-473: a pass of the loop, then the return
CrossfadeStep ==
    /\ call.fn = "_apply_transitions"
    /\ call.out.pc = "crossfade"
    /\ LET i == call.step
           after == Append(call.out.new_clips, CrossfadeClip(call.out.clips, i))
       IN  IF i + 1 <= Len(call.out.clips)
           THEN call' = [call EXCEPT !.out = [@ EXCEPT !.new_clips = after], !.step = i + 1]
           ELSE call' = [call EXCEPT !.out = [@ EXCEPT !.new_clips = after, !.pc = "returned",
                                                       !.result = after],
                                     !.step = i + 1]
    /\ UNCHANGED <<now, ttl, records, dirs, files, manifestFile, archive, pc,
                   cursor, manifest, slideQ, log, render, starts, eng,
                   jobs, tempAudio, runs>>

(***************************************************************************)
(* Specifications.                                                         *)
(***************************************************************************)
NoArchive ==
    [via |-> "none", source |-> "upload", entries |-> <<>>, options |-> NoOptions,
     filename |-> <<>>, url |-> <<>>]

\* the pipeline: nothing is submitted yet; the two expiry periods are
\* configuration
Init ==
    /\ now = 0
    /\ ttl \in [media : TTLChoices, meta : TTLChoices]
    /\ records = [s \in Sessions |-> NoRecord]
    /\ dirs = {}
    /\ files = {}
    /\ manifestFile = [s \in Sessions |-> NoManifest]
    /\ archive = [s \in Sessions |-> NoArchive]
    /\ pc = [s \in Sessions |-> "idle"]
    /\ cursor = [s \in Sessions |-> 0]
    /\ manifest = [s \in Sessions |-> EmptyManifest]
    /\ slideQ = [s \in Sessions |-> <<>>]
    /\ log = [s \in Sessions |-> <<>>]
    /\ render = [s \in Sessions |-> "none"]
    /\ starts = [s \in Sessions |-> 0]
    /\ eng = EngOff
    /\ jobs = [s \in Sessions |-> JobOff]
    /\ tempAudio = "none"
    /\ runs = [s \in Sessions |-> NoRuns]
    /\ call = NoCall

ProcessZipSession(s) ==
    \/ PzsStart(s)
    \/ PzsUploadScan(s)
    \/ PzsUploadExtract(s)
    \/ PzsUploadFinish(s)
    \/ PzsDownloadScan(s)
    \/ PzsUrlExtract(s)
    \/ PzsUrlFinish(s)
    \/ PzsProbe(s)
    \/ PzsFinalize(s)

Next ==
    \/ \E s \in Sessions : upload_zip(s)
    \/ \E s \in Sessions : submit_link(s)
    \/ \E s \in Sessions : ProcessZipSession(s)
    \/ \E s \in Sessions : StartSlideshow(s)
    \/ \E s \in Sessions : generate_slideshow(s)
    \/ \E s \in Sessions : delete_session(s)
    \/ cleanup_expired_sessions
    \/ Tick

Spec == Init /\ [][Next]_vars

\* ingestion alone: the state right after a submission, for every archive of
\* at most MaxEntries entries and every source kind
\* an accepted submission of archive a with source type src
Submitted(src, a) ==
    [via      |-> IF src = "upload" THEN "upload_zip" ELSE "submit_link",
     source   |-> src,
     entries  |-> a,
     options  |-> NoOptions,
     filename |-> IF src = "upload" THEN F_ZIP ELSE <<>>,
     url      |-> IF src = "upload" THEN <<>> ELSE U_ok]

InitIngest ==
    /\ now = 0
    /\ ttl = [media |-> 2, meta |-> 2]
    /\ archive \in [Sessions -> {Submitted(src, a) : src \in SourceType, a \in AllArchives}]
    /\ records = [s \in Sessions |-> NewRecordAt0(s, archive[s].source)]
    /\ dirs = {s \in Sessions : archive[s].source = "upload"}
    /\ files = {InputZip(s) : s \in {t \in Sessions : archive[t].source = "upload"}}
    /\ manifestFile = [s \in Sessions |-> NoManifest]
    /\ pc = [s \in Sessions |-> "queued"]
    /\ cursor = [s \in Sessions |-> 0]
    /\ manifest = [s \in Sessions |-> EmptyManifest]
    /\ slideQ = [s \in Sessions |-> <<>>]
    /\ log = [s \in Sessions |-> <<>>]
    /\ render = [s \in Sessions |-> "none"]
    /\ starts = [s \in Sessions |-> 0]
    /\ eng = EngOff
    /\ jobs = [s \in Sessions |-> JobOff]
    /\ tempAudio = "none"
    /\ runs = [s \in Sessions |-> NoRuns]
    /\ call = NoCall

NextIngest == \E s \in Sessions : ProcessZipSession(s)

SpecIngest == InitIngest /\ [][NextIngest]_vars

\* the sweeper over several sessions: every session of SweepSessions was
\* uploaded at instant 0 with an archive of one audio file and one text file
\* and has been processed to the end
SweepSessions == {"s1", "s2", "s3"}
SweepEntries == <<Entry(N_m, 1), Entry(N_t, 0)>>
SweepMedia(s) == {Append(SessionDir(s), N_m), Append(SessionDir(s), N_t)}
SweepLog ==
    <<[status |-> "downloading", progress |-> NoProgress, by |-> "pzs"],
      [status |-> "processing", progress |-> 10, by |-> "pzs"],
      [status |-> "processing", progress |-> 50, by |-> "pzs"],
      [status |-> "ready", progress |-> 90, by |-> "pzs"],
      [status |-> "ready", progress |-> 100, by |-> "pzs"]>>

InitSweep ==
    /\ now = 0
    /\ ttl \in [media : TTLChoices, meta : TTLChoices]
    /\ archive = [s \in SweepSessions |-> [NoArchive EXCEPT !.via = "upload_zip", !.entries = SweepEntries,
                                !.filename = F_ZIP]]
    /\ manifest = [s \in SweepSessions |-> process_session_directory(s, CHOOSE q \in RglobOrders(s, SweepMedia(s)) : TRUE)]
    /\ manifestFile = manifest
    /\ records = [s \in SweepSessions |->
                     [pydantic_json(NewRecord(s, "upload", <<>>, NoOptions)) EXCEPT !.status = "ready",
                                                 !.progress = 100,
                                                 !.manifest = manifest[s]]]
    /\ dirs = SweepSessions
    /\ files = UNION {SweepMedia(s) \cup {ManifestPath(s)} : s \in SweepSessions}
    /\ pc = [s \in SweepSessions |-> "done"]
    /\ cursor = [s \in SweepSessions |-> Len(SweepEntries) + 1]
    /\ slideQ = [s \in SweepSessions |-> <<>>]
    /\ log = [s \in SweepSessions |-> SweepLog]
    /\ render = [s \in SweepSessions |-> "none"]
    /\ starts = [s \in SweepSessions |-> 0]
    /\ eng = EngOff
    /\ jobs = [s \in SweepSessions |-> JobOff]
    /\ tempAudio = "none"
    /\ runs = [s \in SweepSessions |-> NoRuns]
    /\ call = NoCall

NextSweep ==
    \/ cleanup_expired_sessions
    \/ cleanup_with_failures
    \/ \E s \in SweepSessions : delete_session(s)
    \/ Tick

SpecSweep == InitSweep /\ [][NextSweep]_vars

\* the sweeper and the clock alone, from the three finished sessions
NextOrphan ==
    \/ cleanup_expired_sessions
    \/ cleanup_with_failures
    \/ Tick

SpecOrphan == InitSweep /\ [][NextOrphan]_vars

\* image_duration of the rendering: the shortest and the default value
RenderDurations == {5, 30}

\* rendering alone: generate_slideshow is called for a session directory
\* whose manifest lists at most MaxImages of the images of RenderNames
RenderPath(n) == Append(SessionDir(RenderSession), n)
RenderLists ==
    {Sorted({RenderPath(n) : n \in S}) :
        S \in {T \in SUBSET RenderNames : Cardinality(T) <= MaxImages}}

InitRender ==
    /\ now = 0
    /\ ttl = [media |-> 2, meta |-> 2]
    /\ records = [s \in Sessions |-> NoRecord]
    /\ dirs = {RenderSession}
    /\ \E listed \in RenderLists :
          /\ manifestFile = [s \in Sessions |-> [EmptyManifest EXCEPT !.images = listed]]
          /\ files = {p \in Range(listed) : FileName(p) \notin MissingNames}
                        \cup {ManifestPath(RenderSession)}
    /\ archive = [s \in Sessions |-> NoArchive]
    /\ pc = [s \in Sessions |-> "idle"]
    /\ cursor = [s \in Sessions |-> 0]
    /\ manifest = [s \in Sessions |-> EmptyManifest]
    /\ slideQ = [s \in Sessions |-> <<>>]
    /\ log = [s \in Sessions |-> <<>>]
    /\ render = [s \in Sessions |-> "none"]
    /\ starts = [s \in Sessions |-> 0]
    /\ \E d \in RenderDurations :
          eng = [EngOff EXCEPT !.phase = "select", !.image_duration = d]
    /\ jobs = [s \in Sessions |-> JobOff]
    /\ tempAudio = "none"
    /\ runs = [s \in Sessions |-> NoRuns]
    /\ call = NoCall

NextRender ==
    \/ EngSelect
    \/ EngImage
    \/ EngChunkWrite
    \/ EngConcat

SpecRender == InitRender /\ [][NextRender]_vars

\* sanitize_filename alone, on every name of at most MaxNameLen characters
InitSanitize ==
    /\ now = 0
    /\ ttl = [media |-> 2, meta |-> 2]
    /\ records = [s \in Sessions |-> NoRecord]
    /\ dirs = {}
    /\ files = {}
    /\ manifestFile = [s \in Sessions |-> NoManifest]
    /\ archive = [s \in Sessions |-> NoArchive]
    /\ pc = [s \in Sessions |-> "idle"]
    /\ cursor = [s \in Sessions |-> 0]
    /\ manifest = [s \in Sessions |-> EmptyManifest]
    /\ slideQ = [s \in Sessions |-> <<>>]
    /\ log = [s \in Sessions |-> <<>>]
    /\ render = [s \in Sessions |-> "none"]
    /\ starts = [s \in Sessions |-> 0]
    /\ eng = EngOff
    /\ jobs = [s \in Sessions |-> JobOff]
    /\ tempAudio = "none"
    /\ runs = [s \in Sessions |-> NoRuns]
    /\ \E x \in SanitizeNames :
          call = [NoCall EXCEPT !.fn = "sanitize_filename", !.arg = x]

NextSanitize == SanitizeOnce \/ SanitizeTwice

SpecSanitize == InitSanitize /\ [][NextSanitize]_vars

\* process_session_directory alone: a directory of at most MaxProbeFiles
\* files of ProbePool, iterated in two orders
InitManifest ==
    /\ now = 0
    /\ ttl = [media |-> 2, meta |-> 2]
    /\ records = [s \in Sessions |-> NoRecord]
    /\ dirs = {RenderSession}
    /\ manifestFile = [s \in Sessions |-> NoManifest]
    /\ archive = [s \in Sessions |-> NoArchive]
    /\ pc = [s \in Sessions |-> "idle"]
    /\ cursor = [s \in Sessions |-> 0]
    /\ manifest = [s \in Sessions |-> EmptyManifest]
    /\ slideQ = [s \in Sessions |-> <<>>]
    /\ log = [s \in Sessions |-> <<>>]
    /\ render = [s \in Sessions |-> "none"]
    /\ starts = [s \in Sessions |-> 0]
    /\ eng = EngOff
    /\ jobs = [s \in Sessions |-> JobOff]
    /\ tempAudio = "none"
    /\ runs = [s \in Sessions |-> NoRuns]
    /\ files \in {F \in SUBSET ProbePool : Cardinality(F) <= MaxProbeFiles}
    /\ \E first \in RglobOrders(RenderSession, files),
          second \in RglobOrders(RenderSession, files) :
          call = [NoCall EXCEPT !.fn = "process_session_directory",
                                !.arg = <<first, second>>]

NextManifest == ManifestOfFirst \/ ManifestOfSecond

SpecManifest == InitManifest /\ [][NextManifest]_vars

\* renderings side by side: two sessions have been probed, each with one
\* image and with or without an audio file, and a client of the queue has
\* started the rendering of each; process_zip_session has not gone on yet
JobImage(s) == Append(SessionDir(s), N_a)
JobMusic(s) == Append(SessionDir(s), N_m)
JobMedia(s, withMusic) == {JobImage(s)} \cup (IF withMusic THEN {JobMusic(s)} ELSE {})
JobLog ==
    <<[status |-> "downloading", progress |-> NoProgress, by |-> "pzs"],
      [status |-> "processing", progress |-> 10, by |-> "pzs"],
      [status |-> "processing", progress |-> 50, by |-> "pzs"],
      [status |-> "ready", progress |-> 90, by |-> "pzs"]>>

InitJobs ==
    /\ now = 0
    /\ ttl = [media |-> 2, meta |-> 2]
    /\ \E music \in [JobSessions -> BOOLEAN] :
          /\ archive = [s \in JobSessions |->
                 [NoArchive EXCEPT
                     !.via = "upload_zip", !.filename = F_ZIP,
                     !.entries = IF music[s] THEN <<Entry(N_a, 1), Entry(N_m, 1)>>
                                 ELSE <<Entry(N_a, 1)>>]]
          /\ manifest = [s \in JobSessions |->
                 process_session_directory(s,
                     CHOOSE q \in RglobOrders(s, JobMedia(s, music[s])) : TRUE)]
          /\ files = UNION {JobMedia(s, music[s]) \cup {ManifestPath(s)} : s \in JobSessions}
    /\ manifestFile = manifest
    /\ records = [s \in JobSessions |->
                     [NewRecordAt0(s, "upload") EXCEPT !.status = "ready",
                                                    !.progress = 90,
                                                    !.manifest = manifest[s]]]
    /\ dirs = JobSessions
    /\ pc = [s \in JobSessions |-> "published"]
    /\ cursor = [s \in JobSessions |-> Len(archive[s].entries) + 1]
    /\ slideQ = [s \in JobSessions |-> <<>>]
    /\ log = [s \in JobSessions |-> JobLog]
    /\ render = [s \in JobSessions |-> "none"]
    /\ starts = [s \in JobSessions |-> 1]
    /\ eng = EngOff
    /\ jobs = [s \in JobSessions |-> [JobOff EXCEPT !.phase = "queued"]]
    /\ tempAudio = "none"
    /\ runs = [s \in JobSessions |-> NoRuns]
    /\ call = NoCall

NextJobs ==
    \/ \E s \in JobSessions : JobBegin(s)
    \/ \E s \in JobSessions : JobWriteSound(s)
    \/ \E s \in JobSessions : JobEncode(s)

SpecJobs == InitJobs /\ [][NextJobs]_vars

\* the pipeline and the renderings with the time limits of the tasks
NextTimeLimit ==
    \/ \E s \in Sessions : upload_zip(s)
    \/ \E s \in Sessions : submit_link(s)
    \/ \E s \in Sessions : ProcessZipSession(s)
    \/ \E s \in Sessions : StartSlideshow(s)
    \/ \E s \in Sessions : generate_slideshow(s)
    \/ \E s \in Sessions : PzsSoftTimeLimit(s)
    \/ \E s \in Sessions : PzsHardTimeLimit(s)
    \/ \E s \in Sessions : GsSoftTimeLimit(s)
    \/ \E s \in Sessions : GsHardTimeLimit(s)

SpecTimeLimit == Init /\ [][NextTimeLimit]_vars

\* the first status write of a job against the deletions: a session has
\* been uploaded and its job is about to write downloading
InitUpdate ==
    /\ now = 0
    /\ ttl \in [media : TTLChoices, meta : TTLChoices]
    /\ \E a \in PipelineArchives, o \in {NoOptions, Options(5, "crossfade")} :
          /\ archive = [s \in Sessions |-> [Submitted("upload", a) EXCEPT !.options = o]]
          /\ records = [s \in Sessions |-> pydantic_json(NewRecord(s, "upload", <<>>, o))]
    /\ dirs = Sessions
    /\ files = {InputZip(s) : s \in Sessions}
    /\ manifestFile = [s \in Sessions |-> NoManifest]
    /\ pc = [s \in Sessions |-> "queued"]
    /\ cursor = [s \in Sessions |-> 0]
    /\ manifest = [s \in Sessions |-> EmptyManifest]
    /\ slideQ = [s \in Sessions |-> <<>>]
    /\ log = [s \in Sessions |-> <<>>]
    /\ render = [s \in Sessions |-> "none"]
    /\ starts = [s \in Sessions |-> 0]
    /\ eng = EngOff
    /\ jobs = [s \in Sessions |-> JobOff]
    /\ tempAudio = "none"
    /\ runs = [s \in Sessions |-> NoRuns]
    /\ call = [NoCall EXCEPT !.fn = "_update_session_status"]

NextUpdate ==
    \/ \E s \in Sessions : UssExists(s)
    \/ \E s \in Sessions : UssRead(s)
    \/ \E s \in Sessions : UssWrite(s)
    \/ \E s \in Sessions : delete_session(s)
    \/ cleanup_expired_sessions
    \/ Tick

SpecUpdate == InitUpdate /\ [][NextUpdate]_vars

\* the pipeline with repeated deliveries of process_zip_session
NextRedeliver ==
    \/ \E s \in Sessions : upload_zip(s)
    \/ \E s \in Sessions : submit_link(s)
    \/ \E s \in Sessions : ProcessZipSession(s)
    \/ \E s \in Sessions : Redeliver(s)

SpecRedeliver == Init /\ [][NextRedeliver]_vars

\* the pipeline whose jobs run to completion and whose records are not
\* deleted: a worker takes every task of the queue and runs it to its end
NextLive ==
    \/ \E s \in Sessions : upload_zip(s)
    \/ \E s \in Sessions : submit_link(s)
    \/ \E s \in Sessions : ProcessZipSession(s)
    \/ \E s \in Sessions : StartSlideshow(s)
    \/ \E s \in Sessions : generate_slideshow(s)

Fairness ==
    \A s \in Sessions :
       /\ WF_vars(ProcessZipSession(s))
       /\ WF_vars(generate_slideshow(s))

\* the expiry periods play no part without the sweeper
InitLive == Init /\ ttl = [media |-> 2, meta |-> 2]

SpecLive == InitLive /\ [][NextLive]_vars /\ Fairness

\* the transitions alone: a chunk of up to MaxClips clips of one length and
\* one of the three effects
InitTransitions ==
    /\ now = 0
    /\ ttl = [media |-> 2, meta |-> 2]
    /\ records = [s \in Sessions |-> NoRecord]
    /\ dirs = {}
    /\ files = {}
    /\ manifestFile = [s \in Sessions |-> NoManifest]
    /\ archive = [s \in Sessions |-> NoArchive]
    /\ pc = [s \in Sessions |-> "idle"]
    /\ cursor = [s \in Sessions |-> 0]
    /\ manifest = [s \in Sessions |-> EmptyManifest]
    /\ slideQ = [s \in Sessions |-> <<>>]
    /\ log = [s \in Sessions |-> <<>>]
    /\ render = [s \in Sessions |-> "none"]
    /\ starts = [s \in Sessions |-> 0]
    /\ eng = EngOff
    /\ jobs = [s \in Sessions |-> JobOff]
    /\ tempAudio = "none"
    /\ runs = [s \in Sessions |-> NoRuns]
    /\ \E k \in 1..MaxClips, d \in DurationChoices, effect \in TransitionEffect :
          call = [NoCall EXCEPT !.fn = "_apply_transitions",
                                !.arg = [clips |-> ChunkClips(k, d),
                                         options |-> Options(d, effect)],
                                !.out = NoTransition]

NextTransitions ==
    \/ TransitionsBegin
    \/ FadeStep
    \/ CrossfadeStep

SpecTransitions == InitTransitions /\ [][NextTransitions]_vars

\* probing alone: a session directory with up to MaxProbeFiles files, among
\* them an image that cannot be decoded, a file whose probe raises, a file
\* of no known type and a resource-fork shadow file
N_v == <<"v", ".", "m", "p", "4">>
N_shadow == <<".", "_">> \o N_a
ProbeMix ==
    {Append(SessionDir(RenderSession), n) :
        n \in {N_a, N_c, N_u, N_m, N_v, N_t, N_shadow}}

InitProbe ==
    /\ now = 0
    /\ ttl = [media |-> 2, meta |-> 2]
    /\ records = [s \in Sessions |-> NoRecord]
    /\ dirs = {RenderSession}
    /\ manifestFile = [s \in Sessions |-> NoManifest]
    /\ archive = [s \in Sessions |-> NoArchive]
    /\ pc = [s \in Sessions |-> "idle"]
    /\ cursor = [s \in Sessions |-> 0]
    /\ manifest = [s \in Sessions |-> EmptyManifest]
    /\ slideQ = [s \in Sessions |-> <<>>]
    /\ log = [s \in Sessions |-> <<>>]
    /\ render = [s \in Sessions |-> "none"]
    /\ starts = [s \in Sessions |-> 0]
    /\ eng = EngOff
    /\ jobs = [s \in Sessions |-> JobOff]
    /\ tempAudio = "none"
    /\ runs = [s \in Sessions |-> NoRuns]
    /\ files \in {F \in SUBSET ProbeMix : Cardinality(F) <= MaxProbeFiles}
    /\ \E order \in RglobOrders(RenderSession, files) :
          call = [NoCall EXCEPT !.fn = "process_session_directory",
                                !.arg = <<order>>]

NextProbe == ManifestOfFirst

SpecProbe == InitProbe /\ [][NextProbe]_vars

(***************************************************************************)
(* Properties.                                                             *)
(***************************************************************************)
ReadyPartial == [status |-> "ready", progress |-> 90, by |-> "pzs"]

\* the job of s has published a manifest and has ended
PublishedAndEnded(s) ==
    /\ pc[s] \in {"done", "failed"}
    /\ \E i \in 1..Len(log[s]) : log[s][i] = ReadyPartial

\* C1: a session whose probing yields at least one image has the status
\* generating_slideshow written after the first ready (progress 90), before
\* any final ready (progress 100)
C1_ReadyGeneratingReady ==
    \A s \in Sessions :
        (PublishedAndEnded(s) /\ manifest[s].images # <<>> /\ records[s] # NoRecord)
        => \E i, j \in 1..Len(log[s]) :
              /\ i < j
              /\ log[s][i] = ReadyPartial
              /\ log[s][j].status = "generating_slideshow"
              /\ \A k \in 1..j : ~(log[s][k].status = "ready" /\ log[s][k].progress = 100)

\* C2: a session whose manifest has no image never has generating_slideshow
\* written by process_zip_session, never has generate_slideshow dispatched by
\* it, and its record ends at ready with progress 100
C2_NoImagesReady100 ==
    \A s \in Sessions :
        (PublishedAndEnded(s) /\ manifest[s].images = <<>>)
        => /\ \A i \in 1..Len(log[s]) :
                 log[s][i].by = "pzs" => log[s][i].status # "generating_slideshow"
           /\ \A i \in 1..Len(slideQ[s]) : slideQ[s][i] # "pzs"
           /\ records[s] # NoRecord =>
                 records[s].status = "ready" /\ records[s].progress = 100

C2_Witness ==
    \E s \in Sessions :
        /\ pc[s] = "done"
        /\ manifest[s].images = <<>>
        /\ manifest[s].audio_files # <<>>
        /\ records[s] # NoRecord
        /\ records[s].status = "ready"
        /\ records[s].progress = 100
        /\ log[s][Len(log[s])] = [status |-> "ready", progress |-> 100, by |-> "pzs"]

IngestionErrors ==
    {E_PathScan, E_PathExtract, E_MaxFiles, E_MaxSize, E_NoZip, E_TooMany,
     E_TooLarge, E_Download, E_IsDir, E_NoDir}

C4_RenderFailureRecorded ==
    [][\A s \in Sessions :
          (/\ Len(slideQ'[s]) < Len(slideQ[s])
           /\ render'[s] \in {"false", "raised"}
           /\ records[s] # NoRecord)
          => /\ records'[s] # NoRecord
             /\ records'[s].status = "ready"
             /\ records'[s].error_message = E_Render]_vars

\* the components of an entry name
Segments(name) == Split(name, "/")

\* the name has a parent-directory segment
HasParentSegment(info) ==
    \E i \in 1..Len(Segments(info.filename)) : Segments(info.filename)[i] = DotDot

\* the archive of s has been read and checked (the fetch, if any, succeeded)
Scanned(s) ==
    /\ pc[s] \notin {"idle", "queued", "ingest"}
    /\ records[s] # NoRecord => records[s].error_message \notin {E_Download, E_NoZip}

\* the files of the session directory that come from archive entries
Extracted(s) ==
    {p \in files : InsideDir(p, s)} \ {InputZip(s), ManifestPath(s), SlideshowPath(s)}

\* C5: an archive with an entry whose name has a parent-directory segment
\* makes ingestion fail, for every source kind: the session becomes failed
\* and nothing of the archive is extracted
C5_PathEscapeFails ==
    \A s \in Sessions :
        (/\ Scanned(s)
         /\ records[s] # NoRecord
         /\ \E i \in 1..Len(archive[s].entries) : HasParentSegment(archive[s].entries[i]))
        => /\ pc[s] = "failed"
           /\ records[s].status = "failed"
           /\ Extracted(s) = {}

\* C6: in every state of ingestion, for every source kind and archive, every
\* file written under the media tree (the uploaded archive and each extracted
\* entry) lies inside the directory of its session
C6_NoFileOutside ==
    \A p \in files : \E s \in Sessions : InsideDir(p, s)

C6_Witness ==
    \E s \in Sessions :
        /\ archive[s].source \in UrlSources
        /\ pc[s] = "probe"
        /\ \E i \in 1..Len(archive[s].entries) :
              /\ HasParentSegment(archive[s].entries[i])
              /\ ExtractallTarget(s, archive[s].entries[i]) \in files

NonDirCount(infolist) ==
    Cardinality({i \in 1..Len(infolist) : ~is_dir(infolist[i])})

QuotaErrors == {E_MaxFiles, E_MaxSize, E_TooMany, E_TooLarge}

PathCheckPasses(info) ==
    ~HasParentSegment(info) /\ ~IsPrefix(<<"/">>, info.filename)

\* C8: no entry is written to the session directory unless the quota checks
\* of the source kind and the path checks have passed for every entry of the
\* archive
C8_NoWriteBeforeChecks ==
    \A s \in Sessions :
        Extracted(s) # {}
        => /\ IF archive[s].source = "upload"
              THEN UploadScan(archive[s].entries) = "ok"
              ELSE UrlScan(archive[s].entries) = "ok"
           /\ \A i \in 1..Len(archive[s].entries) :
                 PathCheckPasses(archive[s].entries[i])

\* C9: the check of a fetched archive and the pre-scan of an upload accept
\* the same archives
C9_SameVerdict ==
    \A s \in Sessions :
        (UploadScan(archive[s].entries) = "ok") <=> (UrlScan(archive[s].entries) = "ok")

\* C10: a run of cleanup_expired_sessions in which no item raises keeps the
\* record and removes the media directory of a session whose media expiry alone has passed, and
\* removes the record and leaves the media directory as it is of a session
\* whose metadata expiry alone has passed
C10_SweepDualExpiry ==
    [][cleanup_expired_sessions =>
          \A s \in Sessions :
             (records[s] # NoRecord /\ s \in dirs) =>
                /\ (now > records[s].expires_at /\ now <= records[s].metadata_expires_at)
                   => /\ records'[s] = records[s]
                      /\ s \notin dirs'
                      /\ \A p \in files' : ~InsideDir(p, s)
                /\ (now > records[s].metadata_expires_at /\ now <= records[s].expires_at)
                   => /\ records'[s] = NoRecord
                      /\ s \in dirs'
                      /\ {p \in files' : InsideDir(p, s)} = {p \in files : InsideDir(p, s)}
                      /\ manifestFile'[s] = manifestFile[s]]_vars

C10_Witness ==
    \E s \in Sessions :
        /\ pc[s] = "done"
        /\ records[s] # NoRecord
        /\ records[s].status = "ready"
        /\ now > records[s].expires_at
        /\ now <= records[s].metadata_expires_at
        /\ s \notin dirs

\* C11: a run of the sweeper leaves every media directory that has no
\* session record in place, with all its files
C11_OrphanDirKept ==
    [][(cleanup_expired_sessions \/ cleanup_with_failures) =>
          \A s \in dirs :
             records[s] = NoRecord =>
                /\ s \in dirs'
                /\ {p \in files' : InsideDir(p, s)} = {p \in files : InsideDir(p, s)}
                /\ manifestFile'[s] = manifestFile[s]]_vars

\* a directory whose record is gone is still on disk, with its files, after
\* the media expiry its record carried
C11_Witness ==
    \E s \in DOMAIN records :
        /\ records[s] = NoRecord
        /\ s \in dirs
        /\ SweepMedia(s) \subseteq files
        /\ now > ttl.media

\* C12: in a run of the sweeper in which the handling of some directories
\* or records raises, every other directory and every other record gets the
\* outcome it would get in a run without the failing items
C12_FailureIsolated ==
    [][\A badDirs \in SUBSET DOMAIN records, badRecs \in SUBSET DOMAIN records :
          (badDirs \cup badRecs # {} /\ Sweep(badDirs, badRecs)) =>
             \A s \in DOMAIN records :
                /\ s \notin badDirs =>
                      (s \in dirs' <=>
                         /\ s \in dirs
                         /\ ~(records[s] # NoRecord /\ now > records[s].expires_at))
                /\ s \notin badRecs =>
                      records'[s] =
                         IF records[s] # NoRecord /\ now > records[s].metadata_expires_at
                         THEN NoRecord ELSE records[s]]_vars

\* two sessions with the same media expiry, both past it: the directory of
\* one is gone, the directory of the other, whose handling raised, is not
C12_Witness ==
    \E s \in DOMAIN records, t \in DOMAIN records :
        /\ s # t
        /\ records[s] # NoRecord
        /\ records[t] # NoRecord
        /\ records[s].expires_at = records[t].expires_at
        /\ now > records[s].expires_at
        /\ s \in dirs
        /\ t \notin dirs

\* the manifest image list the rendering started from
Listed == manifestFile[RenderSession].images

\* the rendering has seen no memory sample above the ceiling
NoMemoryEvent == \A j \in DOMAIN eng.events : eng.events[j].ev # "memory"

Kept ==
    {j \in DOMAIN eng.image_paths :
        /\ Event(j, "clip") \in Range(eng.events)
        /\ ChunkOf(j) \in Range(eng.chunk_videos)}

RECURSIVE PickFrom(_, _, _)
PickFrom(q, J, j) ==
    IF j > Len(q) THEN <<>>
    ELSE (IF j \in J THEN <<q[j]>> ELSE <<>>) \o PickFrom(q, J, j + 1)

C14_MemoryAborts ==
    \A j \in DOMAIN eng.events :
        eng.events[j].ev = "memory" =>
            /\ \A k \in DOMAIN eng.events : k > j => eng.events[k].ev = "missing"
            /\ eng.phase = "returned" => eng.result = "failure"

\* C15: a call in which some chunk failed returns failure
C15_ChunkFailureFails ==
    (eng.phase = "returned" /\ eng.failed_chunks # {}) => eng.result = "failure"

\* C16: when the call has returned, none of the chunk videos and optimized
\* images it created is on disk
C16_NoIntermediateLeft ==
    eng.phase = "returned" => eng.created \cap files = {}

\* C17: sanitize_filename applied to its own result returns that result
C17_SanitizeIdempotent ==
    call.step = 2 => call.again = call.out

\* a list of files is in ascending order of filename
AscendingByFilename(q) ==
    \A j \in DOMAIN q, k \in DOMAIN q :
        j < k => ~StrLess(FileName(q[k]), FileName(q[j]))

\* C18: for two orders in which the iteration yields the same files, the
\* images, videos and audio_files lists are each in ascending order of
\* filename and are the same for both orders
C18_ListsDetermined ==
    (call.fn = "process_session_directory" /\ call.step = 2) =>
        /\ \A mf \in {call.out, call.again} :
              /\ AscendingByFilename(mf.images)
              /\ AscendingByFilename(mf.videos)
              /\ AscendingByFilename(mf.audio_files)
        /\ call.out = call.again

\* the options of a submission are outside what SlideshowOptions allows
InvalidOptions(o) ==
    /\ o # NoOptions
    /\ \/ o.image_duration < 5
       \/ o.image_duration > 100
       \/ o.transition_effect \notin {"none", "fade", "crossfade"}

\* C19: a submission with invalid slideshow options is rejected: it has no
\* record, no job (nothing queued, no status write, no rendering task) and,
\* for an upload as well, no session directory; and no rendering task ever
\* fails the validation of its options
C19_InvalidOptionsRejected ==
    \A s \in Sessions :
        /\ (pc[s] # "idle" /\ InvalidOptions(archive[s].options)) =>
              /\ pc[s] = "rejected"
              /\ records[s] = NoRecord
              /\ log[s] = <<>>
              /\ slideQ[s] = <<>>
              /\ s \notin dirs
              /\ \A p \in files : ~InsideDir(p, s)
        /\ render[s] # "badopts"

\* an upload with invalid options was rejected and its directory is gone
C19_Witness ==
    \E s \in Sessions :
        /\ pc[s] = "rejected"
        /\ archive[s].source = "upload"
        /\ InvalidOptions(archive[s].options)
        /\ records[s] = NoRecord
        /\ s \notin dirs

\* C20: no status write of process_zip_session to the record of an uploaded
\* session has the status downloading
C20_NoDownloadingForUpload ==
    \A s \in Sessions :
        archive[s].source = "upload" =>
            \A j \in DOMAIN log[s] :
                ~(log[s][j].by = "pzs" /\ log[s][j].status = "downloading")

\* C21: two jobs that run side by side for different sessions never read
\* or write a common file: every file a job touches lies in the directory
\* of its own session, and each job ends as it would have ended alone,
\* with a video that carries its own session's sound or none
C21_JobsDisjoint ==
    \A s \in JobSessions :
       /\ \A p \in jobs[s].touched : InsideDir(p, s)
       /\ jobs[s].phase = "returned" =>
             /\ jobs[s].result = "success"
             /\ jobs[s].sound \in {"none", s}

\* C22: a process_zip_session or generate_slideshow job that is interrupted
\* for exceeding its soft or its hard time limit leaves the record of the
\* session with status failed
C22_TimeLimitFails ==
    [][\A s \in Sessions :
          (\/ PzsSoftTimeLimit(s) \/ PzsHardTimeLimit(s)
           \/ GsSoftTimeLimit(s) \/ GsHardTimeLimit(s))
             => records'[s] # NoRecord /\ records'[s].status = "failed"]_vars

\* the filenames that are missing or do not end in .zip in any case
BadNames == {F_none, F_zipt, F_azip}

\* C23: upload_zip answers 400 to every upload whose filename is missing or
\* does not end in .zip (whatever the case), and such a request makes no
\* session directory, writes no file and no record and enqueues no job
C23_BadNameRejected ==
    [][\A s \in Sessions :
          (/\ pc[s] = "idle" /\ pc'[s] # "idle"
           /\ archive'[s].via = "upload_zip"
           /\ archive'[s].filename \in BadNames)
             => /\ pc'[s] = "rejected"
                /\ UNCHANGED <<dirs, files, records, slideQ>>]_vars

\* an upload named a.zip.t with valid options has been rejected
C23_Witness ==
    \E s \in Sessions :
       /\ pc[s] = "rejected"
       /\ archive[s].via = "upload_zip"
       /\ archive[s].filename = F_zipt
       /\ OptionsAccepted(archive[s].options)
       /\ records[s] = NoRecord /\ s \notin dirs

\* the addresses with a scheme other than http and https, or with the host
\* localhost, a loopback address or a private address
BadUrls == {U_ftp, U_bare, U_localhost, U_loopback, U_private}

\* C24: submit_link answers 400 to every request whose address has a scheme
\* other than http and https or names localhost, a loopback or a private
\* address, or whose source_type is neither url nor google_drive, and such
\* a request writes no record and enqueues no job
C24_BadLinkRejected ==
    [][\A s \in Sessions :
          (/\ pc[s] = "idle" /\ pc'[s] # "idle"
           /\ archive'[s].via = "submit_link"
           /\ \/ archive'[s].url \in BadUrls
              \/ archive'[s].source \notin {"url", "google_drive"})
             => /\ pc'[s] = "rejected"
                /\ UNCHANGED <<dirs, files, records, slideQ>>]_vars

\* a link to a private address with a valid source_type and valid options
\* has been rejected
C24_Witness ==
    \E s \in Sessions :
       /\ pc[s] = "rejected"
       /\ archive[s].via = "submit_link"
       /\ archive[s].url = U_private
       /\ archive[s].source = "url"
       /\ OptionsAccepted(archive[s].options)
       /\ records[s] = NoRecord

C26_DeletedStaysDeleted ==
    [][\A s \in Sessions :
          (pc[s] # "idle" /\ records[s] = NoRecord) => records'[s] = NoRecord]_vars

\* C27: failed is terminal: once the record of a session has status failed,
\* no later step of process_zip_session or generate_slideshow for that
\* session changes the status
C27_FailedIsTerminal ==
    [][\A s \in Sessions :
          (records[s] # NoRecord /\ records[s].status = "failed"
              /\ records'[s] # NoRecord)
             => records'[s].status = "failed"]_vars

\* C28: a second run of process_zip_session for the same session ends with
\* the record status, the manifest and the files of the media directory
\* that the first run ended with; in particular it never turns a ready
\* session into a failed one whose media are deleted
C28_RerunSameOutcome ==
    \A s \in Sessions :
       (runs[s].n > 0 /\ pc[s] \in {"done", "failed"} /\ records[s] # NoRecord)
          => /\ records[s].status = runs[s].status
             /\ records[s].manifest = runs[s].manifest
             /\ MediaOf(s) = runs[s].media

\* C29: the rendering never overwrites, modifies or deletes a media file
\* listed in the manifest: no file the engine writes is a manifest entry,
\* and every listed file that was on disk is still there when it returns
C29_ManifestFilesUntouched ==
    /\ eng.created \cap Range(Listed) = {}
    /\ eng.phase = "returned" =>
          \A p \in Range(Listed) : FileName(p) \notin MissingNames => p \in files

TerminalStatus == {"ready", "failed"}
AtTerminal(s) == records[s] # NoRecord /\ records[s].status \in TerminalStatus

\* C30: when every job runs to completion and the record is not deleted,
\* every submitted session comes to status ready or failed and stays
\* there: none remains in queued, downloading, processing or
\* generating_slideshow
C30_EventuallyTerminal ==
    \A s \in Sessions :
       (pc[s] = "queued") ~> []AtTerminal(s)

\* a session went through downloading and is at ready or failed with no
\* task left
C30_Witness ==
    \E s \in Sessions :
       /\ pc[s] \in {"done", "failed"}
       /\ slideQ[s] = <<>>
       /\ records[s] # NoRecord
       /\ records[s].status \in TerminalStatus
       /\ Len(log[s]) >= 3
       /\ log[s][1].status = "downloading"

(***************************************************************************)
(* C31.  No step of process_zip_session or generate_slideshow changes a    *)
(* record's session_id, source fields, submitted_at, expires_at or         *)
(* metadata_expires_at, nor the text its dates are written in or its       *)
(* slideshow_options: a record that exists before and after a step differs *)
(* at most in status, manifest, error_message and progress.                *)
(***************************************************************************)
Untouched(meta) ==
    [session_id          |-> meta.session_id,
     source_type         |-> meta.source_type,
     source_url          |-> meta.source_url,
     submitted_at        |-> meta.submitted_at,
     date_text           |-> meta.date_text,
     slideshow_options   |-> meta.slideshow_options,
     expires_at          |-> meta.expires_at,
     metadata_expires_at |-> meta.metadata_expires_at]

C31_OtherFieldsKept ==
    [][\A s \in Sessions :
          (records[s] # NoRecord /\ records'[s] # NoRecord)
              => Untouched(records'[s]) = Untouched(records[s])]_vars

\* an uploaded session, its dates written by pydantic, after the status
\* writes of both tasks
C31_Witness ==
    \E s \in Sessions :
        /\ records[s] # NoRecord
        /\ records[s].date_text = "isoformat"
        /\ \E i \in DOMAIN log[s] : log[s][i].by = "pzs"
        /\ \E i \in DOMAIN log[s] : log[s][i].by = "gs"

(***************************************************************************)
(* C32.  No run of cleanup_expired_sessions, with or without items whose   *)
(* handling raises, removes a media directory whose record's expires_at is *)
(* at or after the clock of the run, nor a record whose                    *)
(* metadata_expires_at is at or after it, and a record the run keeps is    *)
(* left with the contents it had.                                          *)
(***************************************************************************)
C32_NothingBeforeExpiry ==
    [][(cleanup_expired_sessions \/ cleanup_with_failures) =>
          \A s \in DOMAIN records :
             /\ (s \in dirs /\ records[s] # NoRecord /\ records[s].expires_at >= now)
                => /\ s \in dirs'
                   /\ {p \in files' : InsideDir(p, s)} = {p \in files : InsideDir(p, s)}
                   /\ manifestFile'[s] = manifestFile[s]
             /\ (records[s] # NoRecord /\ records[s].metadata_expires_at >= now)
                => records'[s] = records[s]
             /\ records'[s] # NoRecord => records'[s] = records[s]]_vars

\* the clock stands exactly at the metadata expiry, one instant after the
\* media expiry: the run made at this instant removed the directory and
\* kept the record
C32_Witness ==
    \E s \in DOMAIN records :
        /\ records[s] # NoRecord
        /\ now = records[s].metadata_expires_at
        /\ now = records[s].expires_at + 1
        /\ s \notin dirs
        /\ \E t \in DOMAIN records :
              /\ records[t] # NoRecord
              /\ t \in dirs
              /\ records[t].expires_at < now

(***************************************************************************)
(* C33.  Once a session's media directory is on disk without its record,   *)
(* it stays on disk with all its files through every later run of          *)
(* cleanup_expired_sessions, whatever the clock shows.                     *)
(***************************************************************************)
Orphaned(s) ==
    /\ records[s] = NoRecord
    /\ s \in dirs
    /\ SweepMedia(s) \subseteq files

C33_OrphanNeverSwept ==
    \A s \in SweepSessions : [](Orphaned(s) => []Orphaned(s))

\* the metadata period is the shorter one; past the media expiry a run has
\* removed the directory of a session that still had its record, and the
\* directory without a record is still there
C33_Witness ==
    \E s \in DOMAIN records, t \in DOMAIN records :
        /\ ttl.meta < ttl.media
        /\ now > ttl.media
        /\ Orphaned(s)
        /\ t \notin dirs

(***************************************************************************)
(* C34.  In every reachable state a record whose status is ready or        *)
(* generating_slideshow contains a manifest, and a record whose status is  *)
(* queued, downloading or processing contains none.                        *)
(***************************************************************************)
C34_ManifestIffPublished ==
    \A s \in Sessions :
        records[s] # NoRecord =>
            /\ records[s].status \in {"ready", "generating_slideshow"}
                  => records[s].manifest # NoManifest
            /\ records[s].status \in {"queued", "downloading", "processing"}
                  => records[s].manifest = NoManifest

ChunkSpan(k, n) ==
    {j \in 1..n : (k - 1) * chunk_size < j /\ j <= k * chunk_size}
ChunkCount(n) == (n + chunk_size - 1) \div chunk_size

\* the chunks the loop is through with
ChunksDone == Range(eng.chunk_videos) \cup eng.failed_chunks

\* q holds its elements in the order they have in r, none twice
RECURSIVE SubSeqOf(_, _)
SubSeqOf(q, r) ==
    IF q = <<>> THEN TRUE
    ELSE IF r = <<>> THEN FALSE
    ELSE IF Head(q) = Head(r) THEN SubSeqOf(Tail(q), Tail(r))
    ELSE SubSeqOf(q, Tail(r))

Returned == call.fn = "_apply_transitions" /\ call.out.pc = "returned"

\* _fade_transition lines 449-455 as a whole
RECURSIVE FadeFrom(_, _)
FadeFrom(clips, i) ==
    IF i > Len(clips) - 1 THEN clips ELSE FadeFrom(FadePass(clips, i), i + 1)

(***************************************************************************)
(* C36 as stated: under crossfade, in a chunk of two clips or more, the    *)
(* first and the last clip get exactly what fade gives them (the first a   *)
(* fade-out and no fade-in, the last a fade-in and no fade-out) and every  *)
(* clip between them gets a crossfade-in and a fade-out.                   *)
(***************************************************************************)
C36_CrossfadeEndsAsFade ==
    (Returned /\ call.arg.options.transition_effect = "crossfade"
              /\ Len(call.arg.clips) >= 2) =>
        LET k == Len(call.arg.clips)
            faded == FadeFrom(call.arg.clips, 1)
        IN  /\ Len(call.out.result) = k
            /\ call.out.result[1] = faded[1]
            /\ call.out.result[1].effects = <<"fadeout">>
            /\ call.out.result[k] = faded[k]
            /\ call.out.result[k].effects = <<"fadein">>
            /\ \A i \in 2..(k - 1) :
                  call.out.result[i].effects = <<"crossfadein", "fadeout">>

(***************************************************************************)
(* C36 (amended): under crossfade, in a chunk of two clips or more, the    *)
(* first clip gets a fade-in and no fade-out, the last clip a fade-out and *)
(* no fade-in, which is the reverse of what fade gives them, and every     *)
(* clip between them gets a crossfade-in and a fade-out; no clip changes   *)
(* its image or its length.                                                *)
(***************************************************************************)
C36_CrossfadeEndsReversed ==
    (Returned /\ call.arg.options.transition_effect = "crossfade"
              /\ Len(call.arg.clips) >= 2) =>
        LET k == Len(call.arg.clips)
        IN  /\ Len(call.out.result) = k
            /\ call.out.result[1].effects = <<"fadein">>
            /\ call.out.result[k].effects = <<"fadeout">>
            /\ \A i \in 2..(k - 1) :
                  call.out.result[i].effects = <<"crossfadein", "fadeout">>
            /\ \A i \in 1..k :
                  /\ call.out.result[i].img = call.arg.clips[i].img
                  /\ call.out.result[i].duration = call.arg.clips[i].duration

\* a chunk with clips between the first and the last has gone through
\* _crossfade_transition
C36_Witness ==
    /\ Returned
    /\ call.arg.options.transition_effect = "crossfade"
    /\ Len(call.arg.clips) >= 3
    /\ call.step = Len(call.arg.clips) + 1

(***************************************************************************)
(* C37.  Under fade, in a chunk of two clips or more, every clip but the   *)
(* last gets a fade-out, every clip but the first gets a fade-in, and no   *)
(* clip gets any other effect or another length; under none, and for a     *)
(* chunk of one clip under any effect, the clips come back as they were.   *)
(***************************************************************************)
C37_FadeBetweenClips ==
    Returned =>
        LET k == Len(call.arg.clips)
            effect == call.arg.options.transition_effect
        IN  /\ (effect = "fade" /\ k >= 2) =>
                  /\ Len(call.out.result) = k
                  /\ \A i \in 1..k :
                        LET c == call.out.result[i]
                        IN  /\ ("fadeout" \in Range(c.effects)) <=> (i < k)
                            /\ ("fadein" \in Range(c.effects)) <=> (i > 1)
                            /\ Range(c.effects) \subseteq {"fadein", "fadeout"}
                            /\ Injective(c.effects)
                            /\ c.img = call.arg.clips[i].img
                            /\ c.duration = call.arg.clips[i].duration
            /\ (effect = "none" \/ k = 1) => call.out.result = call.arg.clips

\* a chunk with clips between the first and the last has gone through
\* _fade_transition
C37_Witness ==
    /\ Returned
    /\ call.arg.options.transition_effect = "fade"
    /\ Len(call.arg.clips) >= 3
    /\ call.out.result[2].effects = <<"fadein", "fadeout">>

\* the files a manifest lists, and the tests of the prober on a file
ListedFiles(mf) == Range(mf.images) \cup Range(mf.videos) \cup Range(mf.audio_files)
Shadow(p) == IsPrefix(<<".", "_">>, FileName(p))
KnownType(p) == is_image_file(p) \/ is_video_file(p) \/ is_audio_file(p)
ListedByType(mf, p) ==
    /\ is_image_file(p) => p \in Range(mf.images)
    /\ (~is_image_file(p) /\ is_video_file(p)) => p \in Range(mf.videos)
    /\ (~is_image_file(p) /\ ~is_video_file(p) /\ is_audio_file(p))
          => p \in Range(mf.audio_files)

RECURSIVE StatedScanFrom(_, _, _, _)
StatedScanFrom(infolist, i, total_size, file_count) ==
    IF i > Len(infolist) THEN "ok"
    ELSE LET info == infolist[i] IN
         IF is_dir(info) THEN StatedScanFrom(infolist, i + 1, total_size, file_count)
         ELSE IF ~PathCheckPasses(info) THEN E_PathScan
         ELSE IF file_count + 1 > MAX_FILES_PER_ZIP THEN E_MaxFiles
         ELSE IF total_size + info.file_size > MAX_EXTRACTED_SIZE THEN E_MaxSize
         ELSE StatedScanFrom(infolist, i + 1, total_size + info.file_size,
                             file_count + 1)

(***************************************************************************)
(* C39.  The pre-scan of an uploaded archive ends with the path-escape     *)
(* error exactly when the entry it stops at has a parent-directory segment *)
(* in its name or an absolute name: an archive whose entries have no such  *)
(* segment and are not absolute is never rejected for path escape.         *)
(***************************************************************************)
C39_PathCheckExact ==
    \A s \in Sessions :
        (archive[s].source = "upload" /\ Scanned(s) /\ records[s] # NoRecord) =>
            /\ (records[s].error_message = E_PathScan)
                  <=> (StatedScanFrom(archive[s].entries, 1, 0, 0) = E_PathScan)
            /\ (\A i \in 1..Len(archive[s].entries) :
                   PathCheckPasses(archive[s].entries[i]))
                  => records[s].error_message # E_PathScan

\* every image handed to the engine is on disk and can be decoded
AllReadable ==
    \A j \in DOMAIN eng.image_paths :
        FileName(eng.image_paths[j]) \notin MissingNames \cup CorruptNames

(***************************************************************************)
(* C40.  A rendering of n images that all exist and can be read, with      *)
(* image_duration d and no transition, gives a video of duration n * d:    *)
(* every image is one clip of length d in its chunk and the video is as    *)
(* long as its chunks together.                                            *)
(***************************************************************************)
C40_DurationIsNTimesD ==
    (eng.result = "success" /\ AllReadable) =>
        /\ eng.duration = Len(eng.image_paths) * eng.image_duration
        /\ eng.duration = SumSeq(eng.chunk_durations)
        /\ \A m \in DOMAIN eng.chunk_clips :
              eng.chunk_durations[m] = Len(eng.chunk_clips[m]) * eng.image_duration

====
